---------------------------- MODULE Spec2Model ----------------------------
(***************************************************************************)
(* State-machine model of the journaling backend (KIT-Today/backend).      *)
(*                                                                         *)
(* The database runs at PostgreSQL's default isolation (READ COMMITTED):   *)
(* a statement sees the rows committed so far plus the transaction's own   *)
(* pending rows.  The committed tables are the variables users,            *)
(* attendance, diaries, ...; the pending work of a request lives in its    *)
(* request record until db.commit() makes it visible.                      *)
(*                                                                         *)
(* Every request holds one AsyncSession (database.py get_session, shared   *)
(* by get_current_user and the handler through FastAPI's dependency        *)
(* cache).  A row the session has already loaded stays in its identity     *)
(* map: a later SELECT of the same row, with_for_update() included,        *)
(* returns the same object without overwriting the loaded attributes       *)
(* (no populate_existing).                                                 *)
(***************************************************************************)
EXTENDS Integers, FiniteSets, Sequences, TLC

(***************************************************************************)
(* Bounds of the model.                                                    *)
(***************************************************************************)
MaxDay == 3        \* civil days 1..MaxDay of the fixed UTC+9 clock
MaxDiaries == 3    \* diary ids 1..MaxDiaries are handed out
MaxAnalyses == 2   \* analysis ids 1..MaxAnalyses are handed out
MaxImages == 2     \* object names 1..MaxImages are handed out
MinutesPerDay == 3 \* the day of the alarm clock is cut to minutes 0..MinutesPerDay-1

Users == {1, 2}
Slots == {"r1", "r2"}          \* concurrently served createDiary requests
Days == 1..MaxDay

\* Optional[T]: None is the empty tuple, a value v is <<v>>.
None == <<>>
Some(v) == <<v>>

VARIABLES
    now,          \* today's civil date in UTC+9 (datetime.now(KST).date())
    users,        \* table users: user_id -> [created_at, last_att_date,
                  \*   current_streak, persona, fcm_token, is_push_enabled,
                  \*   is_daily_alarm_on, daily_alarm_time, daily_alarm_days]
    attendance,   \* table attendance: rows [att_id, user_id, att_date]
    diaries,      \* table diaries: rows [diary_id, user_id, content, keywords,
                  \*                        image_url, created_at]
    nextDiaryId,  \* sequence behind diaries.diary_id
    req,          \* createDiary requests being served: slot -> request record
    emotion_analysis, \* table emotion_analysis: rows [analysis_id, diary_id, ...]
    solution_logs,    \* table solution_logs: rows [log_id, diary_id, activity_id, ...]
    nextAnalysisId,   \* sequence behind emotion_analysis.analysis_id
    nextLogId,        \* sequence behind solution_logs.log_id
    aiQueue,          \* analysis requests the AI server has received
    upd,              \* the updateDiary request being served
    cb,               \* the analysis callback being served
    achievements,     \* table achievements: rows [achieve_id, user_id, medal_id, is_read]
    pushes,           \* notifications handed to the push gateway
    cbs,              \* analysis callbacks served side by side: slot -> record
    del,              \* the deleteDiary request being served
    s3,               \* object storage: the image urls the bucket holds
    nextKey,          \* the next fresh object name (uuid4 of upload_image_to_s3)
    got,              \* the getDiary request being served
    kst_minute,       \* minute of the day on the UTC+9 clock
    notification_logs, \* table notification_logs: rows [log_id, user_id, alert_type, ...]
    sends,            \* send_fcm_notification calls made by the sweeps
    diary_feedbacks,  \* table diary_feedbacks: rows [feedback_id, diary_id, is_sent_to_ai]
    ai_feedback,      \* feedback batches the AI server has received
    ran               \* the scheduled jobs that have run in the current day

analysisVars == <<emotion_analysis, solution_logs, nextAnalysisId, nextLogId>>
reconcilerVars == <<achievements, pushes, cbs, del>>
extraVars == <<s3, nextKey, got, kst_minute, notification_logs, sends, diary_feedbacks,
               ai_feedback, ran>>
vars == <<now, users, attendance, diaries, nextDiaryId, req,
          emotion_analysis, solution_logs, nextAnalysisId, nextLogId, aiQueue, upd, cb,
          achievements, pushes, cbs, del,
          s3, nextKey, got, kst_minute, notification_logs, sends, diary_feedbacks,
          ai_feedback, ran>>

----------------------------------------------------------------------------
(***************************************************************************)
(* Tables.                                                                 *)
(***************************************************************************)

\* User(last_att_date = None, current_streak = 0, fcm_token = None,
\* is_push_enabled = True, is_daily_alarm_on = False, daily_alarm_time = None,
\* daily_alarm_days = []): a newly signed-up user.  created_at is the day of
\* the sign-up on the server's clock.
NewUser == [last_att_date |-> None, current_streak |-> 0, persona |-> None,
            fcm_token |-> None, is_push_enabled |-> TRUE, created_at |-> 1,
            is_daily_alarm_on |-> FALSE, daily_alarm_time |-> None,
            daily_alarm_days |-> {}]

\* The Attendance rows of (user, day).
AttRows(u, d) == {a \in attendance : a.user_id = u /\ a.att_date = d}

\* __table_args__ = UniqueConstraint("user_id", "att_date"): inserting a row
\* for (u, d) is refused when a committed row for (u, d) exists.
UniqueAttendanceDropped(u, d) == FALSE
UniqueAttendanceViolated(u, d) == AttRows(u, d) # {}

\* The Attendance row create_attendance adds.
NewAttendance(u, d) ==
    [att_id |-> Cardinality(attendance) + 1, user_id |-> u, att_date |-> d]

----------------------------------------------------------------------------
(***************************************************************************)
(* Streak Ledger: create_attendance.                                       *)
(***************************************************************************)

\* Step 3 of create_attendance: the streak after a check-in on day `today` of
\* a user whose loaded row is `u`.
StreakNeverReset(u, today) ==
    [u EXCEPT !.last_att_date = Some(today), !.current_streak = u.current_streak + 1]
StreakLogic(u, today) ==
    [u EXCEPT !.last_att_date = Some(today),
              !.current_streak = IF u.last_att_date = Some(today - 1)
                                 THEN u.current_streak + 1
                                 ELSE 1]

\* The user object as create_attendance leaves it in the session: untouched
\* when today's attendance already exists (early return), else the new streak.
UserAlwaysStamped(snap, today, existing) == StreakLogic(snap, today)
UserAfterAttendance(snap, today, existing) ==
    IF existing THEN snap ELSE StreakLogic(snap, today)

----------------------------------------------------------------------------
(***************************************************************************)
(* Diary Lifecycle Manager: POST /diaries (api create_diary, crud          *)
(* create_diary, create_attendance), one transaction per request.          *)
(***************************************************************************)

\* DiaryCreate.validate_content_or_keywords: `not self.content and not
\* self.keywords` is refused, so one of the two must be given and be
\* non-empty (content is a string, keywords a map, here the set of its keys).
BodyNeverValidated(content, keywords) == TRUE
ValidateContentOrKeywords(content, keywords) ==
    \/ content # None /\ content[1] # ""
    \/ keywords # None /\ keywords[1] # {}

IdleReq ==
    [pc |-> "idle", user |-> 0, snap |-> NewUser, today |-> 0, existing |-> FALSE,
     content |-> None, keywords |-> None, persona |-> None, image_url |-> None,
     diary_id |-> 0, outcome |-> "none", raised |-> "none"]

\* Requests that hold the row lock of user u (SELECT ... FOR UPDATE, kept
\* until the transaction ends).
LockHolders(u) == {r \in Slots : req[r].pc = "flushed" /\ req[r].user = u}

\* Requests in flight that may still insert a diary.
InFlight == {r \in Slots : req[r].pc \in {"authed", "checked", "flushed"}}

\* The Diary row of request r (Diary.model_validate; created_at is stamped in
\* the same synchronous stretch in which create_attendance reads the clock).
PendingDiary(r) ==
    [diary_id |-> nextDiaryId, user_id |-> req[r].user,
     content |-> req[r].content, keywords |-> req[r].keywords,
     image_url |-> req[r].image_url, created_at |-> req[r].today]

\* get_current_user (deps.py) and the handler's input: the session loads the
\* user row; the body is validated by DiaryCreate before any database write.
GetCurrentUser(r, u, content, keywords, persona) ==
    /\ req[r].pc = "idle"
    /\ nextDiaryId + Cardinality(InFlight) <= MaxDiaries
    /\ IF ValidateContentOrKeywords(content, keywords)
       THEN req' = [req EXCEPT ![r] = [IdleReq EXCEPT !.pc = "authed", !.user = u,
                                         !.snap = users[u], !.content = content,
                                         !.keywords = keywords, !.persona = persona]]
       ELSE req' = [req EXCEPT ![r] = [IdleReq EXCEPT !.pc = "done", !.user = u,
                                         !.outcome = "invalid",
                                         !.raised = "ValidationError"]]
    /\ UNCHANGED <<extraVars, reconcilerVars, now, users, attendance, diaries, nextDiaryId, analysisVars, aiQueue, upd, cb>>

\* upload_image_to_s3: the file is stored under a fresh name (uuid4) and its
\* url is returned; the url is modelled by the number of the name.
UploadImageToS3 == nextKey

\* A POST /diaries that carries an image (api create_diary lines 62-83): after
\* get_current_user the image is uploaded, and only then DiaryCreate
\* validates the body.  A failed upload raises out of the handler (HTTP 500)
\* before anything is written.
CreateDiaryWithImage(r, u, content, keywords, persona, uploaded) ==
    /\ req[r].pc = "idle"
    /\ nextDiaryId + Cardinality(InFlight) <= MaxDiaries
    /\ nextKey <= MaxImages
    /\ IF uploaded
       THEN /\ s3' = s3 \cup {UploadImageToS3}
            /\ nextKey' = nextKey + 1
            /\ IF ValidateContentOrKeywords(content, keywords)
               THEN req' = [req EXCEPT ![r] =
                              [IdleReq EXCEPT !.pc = "authed", !.user = u,
                                              !.snap = users[u], !.content = content,
                                              !.keywords = keywords, !.persona = persona,
                                              !.image_url = Some(UploadImageToS3)]]
               ELSE req' = [req EXCEPT ![r] =
                              [IdleReq EXCEPT !.pc = "done", !.user = u,
                                              !.outcome = "invalid",
                                              !.raised = "ValidationError"]]
       ELSE /\ req' = [req EXCEPT ![r] = [IdleReq EXCEPT !.pc = "done", !.user = u,
                                                         !.outcome = "error",
                                                         !.raised = "Exception"]]
            /\ UNCHANGED <<s3, nextKey>>
    /\ UNCHANGED <<got, kst_minute, notification_logs, sends, diary_feedbacks, ai_feedback,
                   ran, reconcilerVars, now, users, attendance, diaries, nextDiaryId,
                   analysisVars, aiQueue, upd, cb>>

\* create_attendance lines 11-20: read the UTC+9 date, look for today's row.
CheckExistingAttendance(r) ==
    /\ req[r].pc = "authed"
    /\ req' = [req EXCEPT ![r].pc = "checked", ![r].today = now,
                           ![r].existing = (AttRows(req[r].user, now) # {})]
    /\ UNCHANGED <<extraVars, reconcilerVars, now, users, attendance, diaries, nextDiaryId, analysisVars, aiQueue, upd, cb>>

\* create_attendance lines 22-47: SELECT users FOR UPDATE waits for the row
\* lock, the streak is computed on the session's user object, and flush()
\* sends UPDATE users and INSERT attendance.  A unique violation raises
\* IntegrityError, which create_diary's except turns into rollback + HTTP 500.
LockUserAndFlush(r) ==
    /\ req[r].pc = "checked"
    /\ ~req[r].existing
    /\ LockHolders(req[r].user) = {}
    /\ IF UniqueAttendanceViolated(req[r].user, req[r].today)
       THEN req' = [req EXCEPT ![r].pc = "done", ![r].outcome = "error",
                               ![r].raised = "IntegrityError"]
       ELSE req' = [req EXCEPT ![r].pc = "flushed"]
    /\ UNCHANGED <<extraVars, reconcilerVars, now, users, attendance, diaries, nextDiaryId, analysisVars, aiQueue, upd, cb>>

\* What db.rollback() leaves in the diaries table: nothing of the request.
RollbackKeepsDiary(r) == diaries \cup {PendingDiary(r)}
DiariesAfterRollback(r) == diaries

\* crud create_diary lines 36-39: any exception inside the try block (diary
\* insert, create_attendance, commit) rolls the transaction back; HTTP 500.
CreateDiaryFails(r) ==
    /\ req[r].pc \in {"authed", "checked", "flushed"}
    /\ diaries' = DiariesAfterRollback(r)
    /\ nextDiaryId' = IF diaries' = diaries THEN nextDiaryId ELSE nextDiaryId + 1
    /\ req' = [req EXCEPT ![r].pc = "done", ![r].outcome = "error",
                           ![r].raised = "Exception"]
    /\ UNCHANGED <<extraVars, reconcilerVars, now, users, attendance, analysisVars, aiQueue, upd, cb>>

\* crud create_diary line 27: db.commit() makes the diary, and when
\* create_attendance stamped the user, the user row and the attendance row
\* visible together.  UPDATE users carries the attributes that changed.
CommitCreateDiary(r) ==
    LET u == req[r].user
        after == UserAfterAttendance(req[r].snap, req[r].today, req[r].existing)
    IN  /\ \/ req[r].pc = "checked" /\ req[r].existing
           \/ req[r].pc = "flushed"
        /\ diaries' = diaries \cup {PendingDiary(r)}
        /\ nextDiaryId' = nextDiaryId + 1
        /\ users' = IF after # req[r].snap
                    THEN [users EXCEPT ![u].last_att_date = after.last_att_date,
                                       ![u].current_streak = after.current_streak]
                    ELSE users
        /\ attendance' = IF req[r].existing THEN attendance
                         ELSE attendance \cup {NewAttendance(u, req[r].today)}
        /\ req' = [req EXCEPT ![r].pc = "committed", ![r].diary_id = nextDiaryId,
                               ![r].outcome = "ok"]
        /\ UNCHANGED <<extraVars, reconcilerVars, now, analysisVars, aiQueue, upd, cb>>

\* The content the AI server is given for diary d: request_diary_analysis opens
\* its own session and sends the user's recent diaries as they are stored when
\* the background task runs (get_recent_diaries_for_ai).
HistoryOf(d) ==
    LET rows == {x \in diaries : x.diary_id = d}
    IN  IF rows = {} THEN None
        ELSE LET x == CHOOSE y \in rows : TRUE
             IN  Some([content |-> x.content, keywords |-> x.keywords])

\* request_diary_analysis(diary_id, user_id, persona), called as a background
\* task with the positional arguments `args`: a call that does not bind all
\* three parameters raises TypeError before the body runs.  Otherwise the
\* request is POSTed to the AI server; any error (timeout, refused connection,
\* HTTP status) is logged and swallowed, and nothing is retried.  `delivered`
\* is the network's outcome.  A request carries, besides what is sent, the
\* text it was made for and the number of diaries its user had then (history
\* fields).
RequestRetriedUntilDelivered(args, delivered) ==
    IF Len(args) = 3
    THEN aiQueue \cup {[diary_id |-> args[1], user_id |-> args[2], persona |-> args[3],
                         src |-> HistoryOf(args[1]),
                         requested_at_count |->
                             Cardinality({x \in diaries : x.user_id = args[2]})]}
    ELSE aiQueue
RequestDiaryAnalysis(args, delivered) ==
    IF Len(args) = 3 /\ delivered
    THEN aiQueue \cup {[diary_id |-> args[1], user_id |-> args[2], persona |-> args[3],
                         src |-> HistoryOf(args[1]),
                         requested_at_count |->
                             Cardinality({x \in diaries : x.user_id = args[2]})]}
    ELSE aiQueue

\* api create_diary lines 92-96: the persona sent with the request; both
\* tests are `is not None`.
PersonaByTruthiness(persona, stored) ==
    IF persona # None /\ persona[1] # 0 THEN persona[1]
    ELSE IF stored # None /\ stored[1] # 0 THEN stored[1]
    ELSE 1
FinalPersona(persona, stored) ==
    IF persona # None THEN persona[1]
    ELSE IF stored # None THEN stored[1]
    ELSE 1

\* api create_diary lines 88-101: after the commit the analysis request runs
\* as a background task, and the response is sent whatever becomes of it.
DispatchAnalysis(r, delivered) ==
    /\ req[r].pc = "committed"
    /\ delivered => aiQueue = {}
    /\ aiQueue' = RequestDiaryAnalysis(
                      <<req[r].diary_id, req[r].user,
                        FinalPersona(req[r].persona, req[r].snap.persona)>>, delivered)
    /\ req' = [req EXCEPT ![r].pc = "done"]
    /\ UNCHANGED <<extraVars, reconcilerVars, now, users, attendance, diaries, nextDiaryId, analysisVars, upd, cb>>

\* The response has gone out; the worker serves the next request.
Respond(r) ==
    /\ req[r].pc = "done"
    /\ req' = [req EXCEPT ![r] = IdleReq]
    /\ UNCHANGED <<extraVars, reconcilerVars, now, users, attendance, diaries, nextDiaryId, analysisVars, aiQueue, upd, cb>>

\* Midnight in UTC+9: datetime.now(KST).date() moves to the next day.
Tick ==
    /\ now < MaxDay
    /\ now' = now + 1
    /\ UNCHANGED <<extraVars, reconcilerVars, users, attendance, diaries, nextDiaryId, req, analysisVars, aiQueue, upd, cb>>

----------------------------------------------------------------------------
(***************************************************************************)
(* Analysis Result Reconciler: POST /diaries/analysis-callback             *)
(* (receive_ai_result).  The endpoint takes whatever the AI server posts:  *)
(* it may answer a request late, and may post one answer more than once.   *)
(* An EmotionAnalysis or SolutionLog row carries, in `src`, the diary text *)
(* the AI server was given for it (a history field, not a column).         *)
(***************************************************************************)

\* receive_ai_result line 232: below this many diaries the category is forced
\* to "NONE" and no solution is stored.
MinDiariesForSolutions == 3

DiaryRows(d) == {x \in diaries : x.diary_id = d}
AnalysesOf(d) == {e \in emotion_analysis : e.diary_id = d}
LogsOf(d) == {l \in solution_logs : l.diary_id = d}

\* select(func.count(Diary.diary_id)).where(Diary.user_id == diary.user_id)
DiaryCount(u) == Cardinality({x \in diaries : x.user_id = u})

\* receive_ai_result lines 231-233: the category that is stored.
FinalMbiOffByOne(mbi_category, diary_count) ==
    IF diary_count <= MinDiariesForSolutions THEN "NONE" ELSE mbi_category
FinalMbi(mbi_category, diary_count) ==
    IF diary_count < MinDiariesForSolutions THEN "NONE" ELSE mbi_category

\* receive_ai_result lines 236-244: the EmotionAnalysis row of a callback.
NewEmotionAnalysis(d, result, diary_count, src) ==
    [analysis_id |-> nextAnalysisId, diary_id |-> d,
     mbi_category |-> FinalMbi(result.mbi_category, diary_count),
     ai_message |-> result.ai_message, src |-> src]

\* receive_ai_result lines 247-255: one SolutionLog row per recommendation,
\* only from the third diary on.
NewSolutionLogsAlways(d, result, diary_count, src) ==
    {[log_id |-> nextLogId + i - 1, diary_id |-> d,
      activity_id |-> result.recommendations[i],
      is_selected |-> FALSE, is_completed |-> FALSE, src |-> src]
     : i \in 1..Len(result.recommendations)}
NewSolutionLogs(d, result, diary_count, src) ==
    IF diary_count >= MinDiariesForSolutions
    THEN {[log_id |-> nextLogId + i - 1, diary_id |-> d,
           activity_id |-> result.recommendations[i],
           is_selected |-> FALSE, is_completed |-> FALSE, src |-> src]
          : i \in 1..Len(result.recommendations)}
    ELSE {}

IdleCb ==
    [pc |-> "idle", diary_id |-> 0, mbi_category |-> "", ai_message |-> "",
     analysis_id |-> 0, msg |-> ""]

\* receive_ai_result lines 220-261 for the answer to request m with payload
\* `result`: load the diary, count the owner's diaries, insert the analysis
\* and the solutions, commit.  `again`: the AI server will post this answer
\* once more.
ReceiveAiResult(m, result, again) ==
    /\ cb.pc = "idle"
    /\ m \in aiQueue
    /\ nextAnalysisId <= MaxAnalyses
    /\ aiQueue' = IF again THEN aiQueue ELSE aiQueue \ {m}
    /\ IF DiaryRows(m.diary_id) = {}
       THEN /\ cb' = [IdleCb EXCEPT !.pc = "done", !.diary_id = m.diary_id,
                                    !.msg = "Diary not found"]
            /\ UNCHANGED analysisVars
       ELSE LET diary == CHOOSE x \in DiaryRows(m.diary_id) : TRUE
                diary_count == DiaryCount(diary.user_id)
                logs == NewSolutionLogs(m.diary_id, result, diary_count, m.src)
            IN  /\ emotion_analysis' = emotion_analysis \cup
                       {NewEmotionAnalysis(m.diary_id, result, diary_count, m.src)}
                /\ solution_logs' = solution_logs \cup logs
                /\ nextAnalysisId' = nextAnalysisId + 1
                /\ nextLogId' = nextLogId + Cardinality(logs)
                /\ cb' = [IdleCb EXCEPT !.pc = "committed", !.diary_id = m.diary_id,
                                        !.mbi_category = result.mbi_category,
                                        !.ai_message = result.ai_message,
                                        !.analysis_id = nextAnalysisId,
                                        !.msg = "Analysis & Solutions saved successfully"]
    /\ UNCHANGED <<extraVars, reconcilerVars, now, users, attendance, diaries, nextDiaryId, req, upd>>

\* The callback's response has gone out.
CallbackRespond ==
    /\ cb.pc \in {"committed", "done"}
    /\ cb' = IdleCb
    /\ UNCHANGED <<extraVars, reconcilerVars, now, users, attendance, diaries, nextDiaryId, req, analysisVars, aiQueue, upd>>

----------------------------------------------------------------------------
(***************************************************************************)
(* Diary Lifecycle Manager: PATCH /diaries/{diary_id} (api update_diary,   *)
(* crud get_diary and update_diary_with_image).                            *)
(***************************************************************************)

\* crud get_diary lines 46-57: the row with this id that belongs to the caller.
OwnerNotChecked(d, u) == DiaryRows(d)
GetDiaryRows(d, u) == {x \in DiaryRows(d) : x.user_id = u}

IdleGot == [pc |-> "idle", diary_id |-> 0, user |-> 0, outcome |-> "none"]

\* GET /diaries/{diary_id} (api read_diary): get_diary returns the caller's
\* diary or raises 404; nothing is written.
ReadDiary(d, u) ==
    /\ got.pc = "idle"
    /\ got' = [IdleGot EXCEPT !.pc = "done", !.diary_id = d, !.user = u,
                              !.outcome = IF GetDiaryRows(d, u) # {}
                                          THEN "ok" ELSE "not_found"]
    /\ UNCHANGED <<s3, nextKey, kst_minute, notification_logs, sends, diary_feedbacks,
                   ai_feedback, ran, reconcilerVars, now, users, attendance, diaries,
                   nextDiaryId, req, analysisVars, aiQueue, upd, cb>>

\* The read's response has gone out.
ReadRespond ==
    /\ got.pc = "done"
    /\ got' = IdleGot
    /\ UNCHANGED <<s3, nextKey, kst_minute, notification_logs, sends, diary_feedbacks,
                   ai_feedback, ran, reconcilerVars, now, users, attendance, diaries,
                   nextDiaryId, req, analysisVars, aiQueue, upd, cb>>

IdleUpd ==
    [pc |-> "idle", diary_id |-> 0, user |-> 0, content |-> None, keywords |-> None,
     emotion_analysis |-> {}, solution_logs |-> {},
     in_content |-> None, in_keywords |-> None, is_changed |-> FALSE,
     ret_analysis |-> {}, ret_logs |-> {}, outcome |-> "none",
     image |-> FALSE, old_image_url |-> None, new_image_url |-> None]

\* Diary.emotion_analysis is a scalar relationship (Optional, uselist=False):
\* loading it yields no row, or one of the diary's rows when the table holds
\* several (the database returns them in no particular order).
ScalarLoads(d) ==
    IF AnalysesOf(d) = {} THEN {{}} ELSE {{e.analysis_id} : e \in AnalysesOf(d)}

\* crud get_diary, called first by update_diary: the diary must exist and
\* belong to the caller (404 otherwise); its analysis and solution logs are
\* loaded with it.
UpdateDiaryGet(d, u, content, keywords) ==
    /\ upd.pc = "idle"
    /\ IF GetDiaryRows(d, u) # {}
       THEN \E loaded \in ScalarLoads(d) :
              LET x == CHOOSE y \in GetDiaryRows(d, u) : TRUE
              IN  upd' = [IdleUpd EXCEPT !.pc = "loaded", !.diary_id = d, !.user = u,
                                         !.content = x.content, !.keywords = x.keywords,
                                         !.emotion_analysis = loaded,
                                         !.solution_logs = {l.log_id : l \in LogsOf(d)},
                                         !.in_content = content, !.in_keywords = keywords,
                                         !.old_image_url = x.image_url,
                                         !.new_image_url = x.image_url]
       ELSE upd' = [IdleUpd EXCEPT !.pc = "done", !.diary_id = d, !.user = u,
                                   !.outcome = "not_found"]
    /\ UNCHANGED <<extraVars, reconcilerVars, now, users, attendance, diaries, nextDiaryId, req, analysisVars, aiQueue, cb>>

\* api update_diary lines 164-179: a PATCH that carries an image uploads it
\* before the database is touched; a failed upload raises out of the handler
\* (HTTP 500).
UpdateDiaryUpload(uploaded) ==
    /\ upd.pc = "loaded"
    /\ ~upd.image
    /\ nextKey <= MaxImages
    /\ IF uploaded
       THEN /\ s3' = s3 \cup {UploadImageToS3}
            /\ nextKey' = nextKey + 1
            /\ upd' = [upd EXCEPT !.image = TRUE,
                                  !.new_image_url = Some(UploadImageToS3)]
       ELSE /\ upd' = [upd EXCEPT !.pc = "done", !.outcome = "error"]
            /\ UNCHANGED <<s3, nextKey>>
    /\ UNCHANGED <<got, kst_minute, notification_logs, sends, diary_feedbacks, ai_feedback,
                   ran, reconcilerVars, now, users, attendance, diaries, nextDiaryId, req,
                   analysisVars, aiQueue, cb>>

\* update_diary_with_image lines 106-110.
ContentAlwaysChanged(in_content, in_keywords, content, keywords) == TRUE
IsContentChanged(in_content, in_keywords, content, keywords) ==
    \/ in_content # None /\ in_content # content
    \/ in_keywords # None /\ in_keywords # keywords

\* update_diary_with_image lines 112-151: on a content change the loaded
\* analysis and solution logs are removed from the diary (delete-orphan), the
\* supplied fields are set, and everything commits together.  The returned
\* diary shows no analysis after a change, and the refreshed rows otherwise.
UpdateDiaryWithImage ==
    LET d == upd.diary_id
        is_changed == IsContentChanged(upd.in_content, upd.in_keywords,
                                       upd.content, upd.keywords)
    IN  /\ upd.pc = "loaded"
        /\ emotion_analysis' =
             IF is_changed
             THEN {e \in emotion_analysis : e.analysis_id \notin upd.emotion_analysis}
             ELSE emotion_analysis
        /\ solution_logs' =
             IF is_changed
             THEN {l \in solution_logs : l.log_id \notin upd.solution_logs}
             ELSE solution_logs
        /\ diaries' =
             {IF x.diary_id = d
              THEN [x EXCEPT !.content = IF upd.in_content # None
                                         THEN upd.in_content ELSE @,
                             !.keywords = IF upd.in_keywords # None
                                          THEN upd.in_keywords ELSE @,
                             !.image_url = IF upd.image
                                           THEN upd.new_image_url ELSE @]
              ELSE x : x \in diaries}
        /\ \E refreshed \in ScalarLoads(d) :
             upd' = [upd EXCEPT !.pc = "committed", !.is_changed = is_changed,
                                !.ret_analysis = IF is_changed THEN {} ELSE refreshed,
                                !.ret_logs = IF is_changed THEN {}
                                             ELSE {l.log_id : l \in LogsOf(d)},
                                !.outcome = "ok"]
        /\ UNCHANGED <<extraVars, reconcilerVars, now, users, attendance, nextDiaryId, req, nextAnalysisId, nextLogId,
                       aiQueue, cb>>

\* update_diary_with_image line 133: the commit fails (the connection is
\* lost, the row is gone); the exception leaves the handler, nothing of the
\* update is stored and no background task is added.
UpdateDiaryCommitFails ==
    /\ upd.pc = "loaded"
    /\ upd' = [upd EXCEPT !.pc = "done", !.outcome = "error"]
    /\ UNCHANGED <<extraVars, reconcilerVars, now, users, attendance, diaries, nextDiaryId, req, analysisVars, aiQueue, cb>>

\* api update_diary line 192: the old image is to be deleted when the request
\* carried an image, the diary had one, and the two differ.
OldImageAlwaysDeleted(image, old_image_url, new_image_url) ==
    old_image_url # None
OldImageToDelete(image, old_image_url, new_image_url) ==
    image /\ old_image_url # None /\ old_image_url # new_image_url

\* api update_diary lines 192-194: delete_image_from_s3(old_image_url) is the
\* first background task, run after the response.  When it raises, the
\* tasks added after it are not run.
UpdateDiaryDeleteOld(deleted) ==
    /\ upd.pc = "committed"
    /\ OldImageToDelete(upd.image, upd.old_image_url, upd.new_image_url)
    /\ IF deleted
       THEN /\ s3' = s3 \ {upd.old_image_url[1]}
            /\ upd' = [upd EXCEPT !.pc = "old_deleted"]
       ELSE /\ s3' = s3
            /\ upd' = [upd EXCEPT !.pc = "done"]
    /\ UNCHANGED <<nextKey, got, kst_minute, notification_logs, sends, diary_feedbacks,
                   ai_feedback, ran, reconcilerVars, now, users, attendance, diaries,
                   nextDiaryId, req, analysisVars, aiQueue, cb>>

\* api update_diary lines 196-200: on a content change the re-analysis is
\* scheduled as request_diary_analysis(diary_id, user_id), without a persona.
UpdateDiaryBackground(delivered) ==
    /\ \/ /\ upd.pc = "committed"
          /\ ~OldImageToDelete(upd.image, upd.old_image_url, upd.new_image_url)
       \/ upd.pc = "old_deleted"
    /\ aiQueue' = IF upd.is_changed
                  THEN RequestDiaryAnalysis(<<upd.diary_id, upd.user>>, delivered)
                  ELSE aiQueue
    /\ upd' = [upd EXCEPT !.pc = "done"]
    /\ UNCHANGED <<extraVars, reconcilerVars, now, users, attendance, diaries, nextDiaryId, req, analysisVars, cb>>

\* The update's response has gone out.
UpdateRespond ==
    /\ upd.pc = "done"
    /\ upd' = IdleUpd
    /\ UNCHANGED <<extraVars, reconcilerVars, now, users, attendance, diaries, nextDiaryId, req, analysisVars, aiQueue, cb>>

----------------------------------------------------------------------------
(***************************************************************************)
(* User settings: PATCH /users/info (crud update_user_info).               *)
(***************************************************************************)

\* update_user_info lines 78-88: the persona is replaced when given; the push
\* switch is stored when given, and turning push off clears the token; a
\* token that is given is stored.
UserInfoAfterUpdate(user, user_in) ==
    LET u1 == IF user_in.persona # None
              THEN [user EXCEPT !.persona = user_in.persona] ELSE user
        u2 == IF user_in.is_push_enabled # None
              THEN [u1 EXCEPT !.is_push_enabled = user_in.is_push_enabled[1],
                              !.fcm_token = IF user_in.is_push_enabled[1]
                                            THEN @ ELSE None]
              ELSE u1
    IN  IF user_in.fcm_token # None
        THEN [u2 EXCEPT !.fcm_token = user_in.fcm_token] ELSE u2

\* update_user_info lines 70-93, one transaction.
UpdateUserInfo(u, user_in) ==
    /\ users[u] # UserInfoAfterUpdate(users[u], user_in)
    /\ users' = [users EXCEPT ![u] = UserInfoAfterUpdate(users[u], user_in)]
    /\ UNCHANGED <<extraVars, reconcilerVars, now, attendance, diaries, nextDiaryId, req, analysisVars,
                   aiQueue, upd, cb>>

----------------------------------------------------------------------------
(***************************************************************************)
(* Notification Dispatcher: core/fcm.py.                                   *)
(***************************************************************************)

\* The parameters of send_fcm_notification(token, title, body).
FcmParameters == {"token", "title", "body"}

\* A call send_fcm_notification(**kwargs) with the keyword names `kwargs`:
\* a keyword that is no parameter raises TypeError at the call; an empty token
\* returns False; any failure of the gateway is caught and returns False.
SendFcmAcceptsData(token, kwargs, gateway_ok) ==
    IF token = None THEN "False"
    ELSE IF gateway_ok THEN "True" ELSE "False"
SendFcmNotification(token, kwargs, gateway_ok) ==
    IF ~(kwargs \subseteq FcmParameters) THEN "TypeError"
    ELSE IF token = None THEN "False"
    ELSE IF gateway_ok THEN "True" ELSE "False"

\* The notification a successful send hands to the gateway.
Pushed(token, type, result) ==
    IF result = "True" THEN pushes \cup {[token |-> token, type |-> type]} ELSE pushes

----------------------------------------------------------------------------
(***************************************************************************)
(* Recovery medal: crud check_and_award_recovery_medal.                    *)
(***************************************************************************)

\* The medals master table holds the recovery medal.
Medals == {[medal_id |-> 1, medal_code |-> "RECOVERY_LIGHT"]}

\* burnout_states, line 168.
BurnoutStates == {"EE", "DP", "PA_LOW"}

\* Lines 150-159: the EmotionAnalysis rows joined to the diaries of user u.
\* A row gets created_at and analysis_id in the callback that stores it, so
\* creation order is the order of analysis_id.
AnalysesOfUser(u) ==
    {e \in emotion_analysis : \E x \in diaries : x.diary_id = e.diary_id /\ x.user_id = u}

\* order_by(desc(created_at)).limit(2): the newest row, and the one before it.
NewestOf(S) == CHOOSE e \in S : \A f \in S : f.analysis_id <= e.analysis_id

\* Lines 161-169: fewer than two rows is no transition; else the row before
\* the newest is in the burnout set and the newest is "NORMAL".
RecoveryDetected(u) ==
    LET rows == AnalysesOfUser(u)
    IN  /\ Cardinality(rows) >= 2
        /\ LET current == NewestOf(rows)
               previous == NewestOf(rows \ {current})
           IN  previous.mbi_category \in BurnoutStates /\ current.mbi_category = "NORMAL"

\* Lines 173-185: the medal row, and the user's Achievement rows of it.
AchievementsOf(u, medal_id) ==
    {a \in achievements : a.user_id = u /\ a.medal_id = medal_id}

\* Lines 145-188 up to the insert: the Medal row to award, or None.
MedalToAward(u) ==
    IF RecoveryDetected(u)
    THEN LET found == {m \in Medals : m.medal_code = "RECOVERY_LIGHT"}
         IN  IF found = {} THEN None
             ELSE LET medal == CHOOSE m \in found : TRUE
                  IN  IF AchievementsOf(u, medal.medal_id) = {}
                      THEN Some(medal) ELSE None
    ELSE None

\* Lines 189-193: the Achievement row.
NewAchievement(u, medal) ==
    [achieve_id |-> Cardinality(achievements) + 1, user_id |-> u,
     medal_id |-> medal.medal_id, is_read |-> FALSE]

\* receive_ai_result lines 284-287: the data payload of the "medal earned"
\* push reads achieve_id of what check_and_award_recovery_medal returned, which
\* is the Medal row (line 196): an attribute the object lacks raises
\* AttributeError before the push is sent.
MedalPush(returned, token, gateway_ok) ==
    IF "achieve_id" \in DOMAIN returned
    THEN SendFcmNotification(token, {"token", "title", "body", "data"}, gateway_ok)
    ELSE "AttributeError"

----------------------------------------------------------------------------
(***************************************************************************)
(* Storage layer: foreign keys emotion_analysis.diary_id and               *)
(* solution_logs.diary_id -> diaries.diary_id (no ON DELETE action).       *)
(***************************************************************************)

\* An insert of a row referencing diary d is refused when d is not stored.
ForeignKeyDropped(d) == FALSE
ForeignKeyViolated(d) == DiaryRows(d) = {}

\* A delete of diary d is refused while rows other than the ones deleted with
\* it (analysis ids `eas`, log ids `logs`) reference it.
StillReferenced(d, eas, logs) ==
    \/ \E e \in AnalysesOf(d) : e.analysis_id \notin eas
    \/ \E l \in LogsOf(d) : l.log_id \notin logs

----------------------------------------------------------------------------
(***************************************************************************)
(* Analysis Result Reconciler, step by step: receive_ai_result as several  *)
(* callbacks and a deleteDiary interleave.                                 *)
(***************************************************************************)

CbSlots == {"c1", "c2"}

IdleCbSlot ==
    [pc |-> "idle", diary_id |-> 0, user_id |-> 0, diary_count |-> 0,
     requested_at_count |-> 0, result |-> None, src |-> None, analysis_id |-> 0,
     logs |-> {}, token |-> None, medal_checked |-> FALSE, award |-> None,
     raised |-> "none", msg |-> ""]

\* Callbacks that have loaded their diary and not yet inserted their rows.
CbLoaded == {c \in CbSlots : cbs[c].pc = "loaded"}

\* Lines 222-223: the diary is gone; the handler returns at once.
NotFoundRaises(c, d) ==
    [IdleCbSlot EXCEPT !.pc = "done", !.diary_id = d, !.raised = "AttributeError"]
NotFoundOutcome(c, d) ==
    [IdleCbSlot EXCEPT !.pc = "done", !.diary_id = d, !.msg = "Diary not found"]

\* Lines 226-228: the number of diaries of the diary's owner, counted when
\* the callback is served.
CountAtRequest(m, u) == m.requested_at_count
CountAtCallback(m, u) == DiaryCount(u)

\* Lines 220-228 for the answer to request m with payload `result`: db.get of
\* the diary and the count of its owner's diaries.
CallbackLoad(c, m, result, again) ==
    /\ cbs[c].pc = "idle"
    /\ m \in aiQueue
    /\ nextAnalysisId + Cardinality(CbLoaded) <= MaxAnalyses
    /\ aiQueue' = IF again THEN aiQueue ELSE aiQueue \ {m}
    /\ IF DiaryRows(m.diary_id) = {}
       THEN cbs' = [cbs EXCEPT ![c] = NotFoundOutcome(c, m.diary_id)]
       ELSE LET diary == CHOOSE x \in DiaryRows(m.diary_id) : TRUE
            IN  cbs' = [cbs EXCEPT ![c] =
                          [IdleCbSlot EXCEPT !.pc = "loaded", !.diary_id = m.diary_id,
                               !.user_id = diary.user_id,
                               !.diary_count = CountAtCallback(m, diary.user_id),
                               !.requested_at_count = m.requested_at_count,
                               !.result = Some(result), !.src = m.src]]
    /\ UNCHANGED <<extraVars, now, users, attendance, diaries, nextDiaryId, req, analysisVars, upd, cb,
                   achievements, pushes, del>>

\* Lines 230-261: the EmotionAnalysis row and, from the third diary on, the
\* SolutionLog rows are inserted and committed.  The insert of a row whose
\* diary has been deleted meanwhile raises IntegrityError (HTTP 500).
CallbackCommit(c) ==
    LET r == cbs[c]
        logs == NewSolutionLogs(r.diary_id, r.result[1], r.diary_count, r.src)
    IN  /\ r.pc = "loaded"
        /\ IF ForeignKeyViolated(r.diary_id)
           THEN /\ cbs' = [cbs EXCEPT ![c].pc = "done", ![c].raised = "IntegrityError"]
                /\ UNCHANGED analysisVars
           ELSE /\ emotion_analysis' = emotion_analysis \cup
                      {NewEmotionAnalysis(r.diary_id, r.result[1], r.diary_count, r.src)}
                /\ solution_logs' = solution_logs \cup logs
                /\ nextAnalysisId' = nextAnalysisId + 1
                /\ nextLogId' = nextLogId + Cardinality(logs)
                /\ cbs' = [cbs EXCEPT ![c].pc = "committed",
                                      ![c].analysis_id = nextAnalysisId,
                                      ![c].logs = {l.log_id : l \in logs}]
        /\ UNCHANGED <<extraVars, now, users, attendance, diaries, nextDiaryId, req, aiQueue, upd, cb,
                       achievements, pushes, del>>

\* Lines 263-278 and check_and_award_recovery_medal up to its insert: the
\* user is loaded; with a push token the "analysis complete" push is sent with
\* a data payload, and after it the medal rule is evaluated.  Without a token
\* the whole block is skipped.
CallbackNotify(c, gateway_ok) ==
    LET r == cbs[c]
        token == users[r.user_id].fcm_token
        sent == SendFcmNotification(token, {"token", "title", "body", "data"}, gateway_ok)
    IN  /\ r.pc = "committed"
        /\ IF token = None
           THEN /\ cbs' = [cbs EXCEPT ![c].pc = "finishing"]
                /\ UNCHANGED pushes
           ELSE IF sent = "TypeError"
           THEN /\ cbs' = [cbs EXCEPT ![c].pc = "finishing", ![c].token = token,
                                      ![c].raised = "TypeError"]
                /\ UNCHANGED pushes
           ELSE /\ pushes' = Pushed(token, "ANALYSIS_COMPLETE", sent)
                /\ cbs' = [cbs EXCEPT ![c].pc = "finishing", ![c].token = token,
                                      ![c].medal_checked = TRUE,
                                      ![c].award = MedalToAward(r.user_id)]
        /\ UNCHANGED <<extraVars, now, users, attendance, diaries, nextDiaryId, req, analysisVars,
                       aiQueue, upd, cb, achievements, del>>

\* The success response of the callback, line 291.
SavedMsg == "Analysis & Solutions saved successfully"

\* check_and_award_recovery_medal lines 189-196 and receive_ai_result lines
\* 279-291: the Achievement is inserted and committed, the "medal earned"
\* push is sent with a data payload, and the handler returns.  An exception
\* raised on the way leaves the handler as HTTP 500.
CallbackFinish(c, gateway_ok) ==
    LET r == cbs[c]
    IN  /\ r.pc = "finishing"
        /\ IF r.raised # "none"
           THEN /\ cbs' = [cbs EXCEPT ![c].pc = "done"]
                /\ UNCHANGED <<achievements, pushes>>
           ELSE IF r.award # None
           THEN LET sent == MedalPush(r.award[1], r.token, gateway_ok)
                IN  /\ achievements' =
                         achievements \cup {NewAchievement(r.user_id, r.award[1])}
                    /\ pushes' = Pushed(r.token, "NEW_MEDAL", sent)
                    /\ cbs' = IF sent \in {"TypeError", "AttributeError"}
                              THEN [cbs EXCEPT ![c].pc = "done", ![c].raised = sent]
                              ELSE [cbs EXCEPT ![c].pc = "done", ![c].msg = SavedMsg]
           ELSE /\ cbs' = [cbs EXCEPT ![c].pc = "done", ![c].msg = SavedMsg]
                /\ UNCHANGED <<achievements, pushes>>
        /\ UNCHANGED <<extraVars, now, users, attendance, diaries, nextDiaryId, req, analysisVars,
                       aiQueue, upd, cb, del>>

\* The callback's response has gone out.
CallbackEnd(c) ==
    /\ cbs[c].pc = "done"
    /\ cbs' = [cbs EXCEPT ![c] = IdleCbSlot]
    /\ UNCHANGED <<extraVars, now, users, attendance, diaries, nextDiaryId, req, analysisVars,
                   aiQueue, upd, cb, achievements, pushes, del>>

----------------------------------------------------------------------------
(***************************************************************************)
(* Diary Lifecycle Manager: DELETE /diaries/{diary_id} (api delete_diary,  *)
(* crud delete_diary, s3_service delete_image_from_s3).                    *)
(***************************************************************************)

IdleDel ==
    [pc |-> "idle", diary_id |-> 0, user |-> 0, image_url |-> None,
     emotion_analysis |-> {}, solution_logs |-> {}, outcome |-> "none",
     raised |-> "none"]

\* crud delete_diary line 156: get_diary loads the caller's diary with its
\* analysis and solution logs, or raises 404.
DeleteDiaryGet(d, u) ==
    /\ del.pc = "idle"
    /\ IF GetDiaryRows(d, u) # {}
       THEN \E loaded \in ScalarLoads(d) :
              del' = [IdleDel EXCEPT !.pc = "loaded", !.diary_id = d, !.user = u,
                                     !.image_url =
                                         (CHOOSE x \in GetDiaryRows(d, u) : TRUE).image_url,
                                     !.emotion_analysis = loaded,
                                     !.solution_logs = {l.log_id : l \in LogsOf(d)}]
       ELSE del' = [IdleDel EXCEPT !.pc = "done", !.diary_id = d, !.user = u,
                                   !.outcome = "not_found"]
    /\ UNCHANGED <<extraVars, now, users, attendance, diaries, nextDiaryId, req, analysisVars,
                   aiQueue, upd, cb, achievements, pushes, cbs>>

\* What an error of the storage delete leaves of the request: boto3's
\* exception leaves delete_image_from_s3, run_sync and delete_diary uncaught,
\* so the handler ends with HTTP 500 before db.delete and db.commit.
StorageErrorRaised(request) ==
    [request EXCEPT !.pc = "done", !.outcome = "error", !.raised = "ClientError"]

\* crud delete_diary lines 158-162 and delete_image_from_s3: a diary with an
\* image has the object deleted from the bucket first; `deleted` is the
\* outcome of s3_client.delete_object.
DeleteImageFromS3(deleted) ==
    /\ del.pc = "loaded"
    /\ del.image_url # None
    /\ IF deleted
       THEN /\ s3' = s3 \ {del.image_url[1]}
            /\ del' = [del EXCEPT !.pc = "image_deleted"]
       ELSE /\ s3' = s3
            /\ del' = StorageErrorRaised(del)
    /\ UNCHANGED <<nextKey, got, kst_minute, notification_logs, sends, diary_feedbacks,
                   ai_feedback, ran, now, users, attendance, diaries, nextDiaryId, req,
                   analysisVars, aiQueue, upd, cb, achievements, pushes, cbs>>

\* crud delete_diary lines 164-165: the loaded analysis and solution logs are
\* deleted with the diary (cascade "all, delete-orphan") and the transaction
\* commits.  Rows of the diary that the session did not load make the DELETE
\* of the diary fail on the foreign key: IntegrityError, nothing is deleted.
DeleteDiaryCommit ==
    LET d == del.diary_id
    IN  /\ \/ del.pc = "loaded" /\ del.image_url = None
           \/ del.pc = "image_deleted"
        /\ IF StillReferenced(d, del.emotion_analysis, del.solution_logs)
           THEN /\ del' = [del EXCEPT !.pc = "done", !.outcome = "error",
                                      !.raised = "IntegrityError"]
                /\ UNCHANGED <<diaries, emotion_analysis, solution_logs>>
           ELSE /\ diaries' = {x \in diaries : x.diary_id # d}
                /\ emotion_analysis' =
                     {e \in emotion_analysis : e.analysis_id \notin del.emotion_analysis}
                /\ solution_logs' =
                     {l \in solution_logs : l.log_id \notin del.solution_logs}
                /\ del' = [del EXCEPT !.pc = "done", !.outcome = "ok"]
        /\ UNCHANGED <<extraVars, now, users, attendance, nextDiaryId, req, nextAnalysisId, nextLogId,
                       aiQueue, upd, cb, achievements, pushes, cbs>>

\* DELETE /diaries/{diary_id}/image (api delete_diary_photo line 301):
\* get_diary loads the caller's diary or raises 404; a diary without an image
\* is answered at once (line 303).
DeleteDiaryPhotoGet(d, u) ==
    /\ del.pc = "idle"
    /\ IF GetDiaryRows(d, u) # {}
       THEN LET x == CHOOSE y \in GetDiaryRows(d, u) : TRUE
            IN  del' = IF x.image_url # None
                       THEN [IdleDel EXCEPT !.pc = "photo_loaded", !.diary_id = d,
                                            !.user = u, !.image_url = x.image_url]
                       ELSE [IdleDel EXCEPT !.pc = "done", !.diary_id = d, !.user = u,
                                            !.outcome = "ok"]
       ELSE del' = [IdleDel EXCEPT !.pc = "done", !.diary_id = d, !.user = u,
                                   !.outcome = "not_found"]
    /\ UNCHANGED <<extraVars, now, users, attendance, diaries, nextDiaryId, req, analysisVars,
                   aiQueue, upd, cb, achievements, pushes, cbs>>

\* api delete_diary_photo line 304: the object is deleted from the bucket
\* before the row is touched; `deleted` is the outcome of delete_object.
DeleteDiaryPhotoImage(deleted) ==
    /\ del.pc = "photo_loaded"
    /\ IF deleted
       THEN /\ s3' = s3 \ {del.image_url[1]}
            /\ del' = [del EXCEPT !.pc = "photo_deleted"]
       ELSE /\ s3' = s3
            /\ del' = StorageErrorRaised(del)
    /\ UNCHANGED <<nextKey, got, kst_minute, notification_logs, sends, diary_feedbacks,
                   ai_feedback, ran, now, users, attendance, diaries, nextDiaryId, req,
                   analysisVars, aiQueue, upd, cb, achievements, pushes, cbs>>

\* What a failed commit stores of the cleared image reference: nothing.
RowsAfterPhotoCommit(rows, d, committed) ==
    IF committed
    THEN {IF x.diary_id = d THEN [x EXCEPT !.image_url = None] ELSE x : x \in rows}
    ELSE rows

\* api delete_diary_photo lines 305-309: image_url = None is committed;
\* `committed` is the outcome of db.commit(), whose exception leaves the
\* handler uncaught (HTTP 500).
DeleteDiaryPhotoCommit(committed) ==
    /\ del.pc = "photo_deleted"
    /\ diaries' = RowsAfterPhotoCommit(diaries, del.diary_id, committed)
    /\ del' = IF committed
              THEN [del EXCEPT !.pc = "done", !.outcome = "ok"]
              ELSE [del EXCEPT !.pc = "done", !.outcome = "error",
                               !.raised = "Exception"]
    /\ UNCHANGED <<extraVars, now, users, attendance, nextDiaryId, req, analysisVars,
                   aiQueue, upd, cb, achievements, pushes, cbs>>

\* The delete's response has gone out.
DeleteRespond ==
    /\ del.pc = "done"
    /\ del' = IdleDel
    /\ UNCHANGED <<extraVars, now, users, attendance, diaries, nextDiaryId, req, analysisVars,
                   aiQueue, upd, cb, achievements, pushes, cbs>>

----------------------------------------------------------------------------
(***************************************************************************)
(* Scheduler: main.py registers the sweeps as cron jobs; each job opens    *)
(* its own session.                                                        *)
(***************************************************************************)

\* A day of the scheduler's calendar ends: the daily jobs are due again.
DayPasses(last) ==
    /\ now < last
    /\ now' = now + 1
    /\ ran' = {}
    /\ UNCHANGED <<s3, nextKey, got, kst_minute, notification_logs, sends, diary_feedbacks,
                   ai_feedback, reconcilerVars, users, attendance, diaries, nextDiaryId,
                   req, analysisVars, aiQueue, upd, cb>>

----------------------------------------------------------------------------
(***************************************************************************)
(* Feedback batching sweep: services/ai_services.py                        *)
(* send_feedback_to_ai_server, run by scheduled_feedback_job once a day.   *)
(***************************************************************************)

FeedbackCadence == 14

\* The owner of diary d.
OwnerOf(d) == (CHOOSE x \in DiaryRows(d) : TRUE).user_id

\* Lines 62-70: the unsent feedbacks, inner-joined with their diary, its owner
\* and the diary's analysis.
UnsentFeedbacks ==
    {f \in diary_feedbacks : /\ ~f.is_sent_to_ai
                             /\ DiaryRows(f.diary_id) # {}
                             /\ AnalysesOf(f.diary_id) # {}}

\* Lines 87-90: the owner joined a positive multiple of 14 days ago.
DueEveryDay(days_since_join) == days_since_join > 0
DueForFeedback(days_since_join) ==
    days_since_join > 0 /\ days_since_join % FeedbackCadence = 0

\* Lines 77-98: feedbacks_to_update on the day `today`.
FeedbacksToUpdate(today) ==
    {f \in UnsentFeedbacks :
        DueForFeedback(today - users[OwnerOf(f.diary_id)].created_at)}

\* Lines 107-121: the feedbacks of the batch are marked and committed inside
\* the try block after raise_for_status(); any exception, of the POST or of
\* the commit, is printed and leaves the table as it was.
MarkedRegardless(batch, succeeded) ==
    {IF f \in batch THEN [f EXCEPT !.is_sent_to_ai = TRUE] ELSE f : f \in diary_feedbacks}
MarkedAfterTransmit(batch, succeeded) ==
    IF succeeded
    THEN {IF f \in batch THEN [f EXCEPT !.is_sent_to_ai = TRUE] ELSE f
            : f \in diary_feedbacks}
    ELSE diary_feedbacks

\* One run of send_feedback_to_ai_server.  `transmitted`: the AI server took
\* the batch (no timeout, no error status); `committed`: db.commit() went
\* through.  An attempt to transmit is recorded with its day, the diaries of
\* its feedbacks and its outcome.
SendFeedbackToAiServer(transmitted, committed) ==
    LET batch == FeedbacksToUpdate(now)
    IN  /\ "feedback" \notin ran
        /\ ran' = ran \cup {"feedback"}
        /\ IF batch = {}
           THEN UNCHANGED <<diary_feedbacks, ai_feedback>>
           ELSE /\ ai_feedback' = ai_feedback \cup
                       {[at |-> now, feedbacks |-> {f.diary_id : f \in batch},
                         delivered |-> transmitted]}
                /\ diary_feedbacks' = MarkedAfterTransmit(batch, transmitted /\ committed)
        /\ UNCHANGED <<s3, nextKey, got, kst_minute, notification_logs, sends,
                       reconcilerVars, now, users, attendance, diaries, nextDiaryId, req,
                       analysisVars, aiQueue, upd, cb>>

----------------------------------------------------------------------------
(***************************************************************************)
(* Inactivity sweep: services/notification.py                              *)
(* check_and_send_inactivity_alarms, run by scheduled_job once a day and   *)
(* by POST /users/test/send-inactivity-push whenever it is called.         *)
(***************************************************************************)

\* Table push_messages: the texts of the three tiers are rows 1, 2 and 3.
PushMessages == {1, 2, 3}

\* Lines 35-43: the tier of a number of days without attendance.
TierAtLeast(diff_days) ==
    IF diff_days >= 30 THEN Some([msg_id |-> 3, alert_type |-> "30_DAYS_INACTIVE"])
    ELSE IF diff_days >= 7 THEN Some([msg_id |-> 2, alert_type |-> "7_DAYS_INACTIVE"])
    ELSE IF diff_days >= 3 THEN Some([msg_id |-> 1, alert_type |-> "3_DAYS_INACTIVE"])
    ELSE None
TierOf(diff_days) ==
    IF diff_days = 3 THEN Some([msg_id |-> 1, alert_type |-> "3_DAYS_INACTIVE"])
    ELSE IF diff_days = 7 THEN Some([msg_id |-> 2, alert_type |-> "7_DAYS_INACTIVE"])
    ELSE IF diff_days = 30 THEN Some([msg_id |-> 3, alert_type |-> "30_DAYS_INACTIVE"])
    ELSE None

\* Lines 15-23: the users the sweep looks at.
InactivityCandidates ==
    {u \in Users : /\ users[u].is_push_enabled
                   /\ users[u].fcm_token # None
                   /\ users[u].last_att_date # None}

\* Lines 27-51: the users of the run that are at a tier whose text exists,
\* `today` being the date the run read.
InactivityTargets(today) ==
    {u \in InactivityCandidates :
        LET tier == TierOf(today - users[u].last_att_date[1])
        IN  tier # None /\ tier[1].msg_id \in PushMessages}

\* One run of check_and_send_inactivity_alarms, started by `job`, with
\* `today` = date.today() and the push gateway up or down: every target is
\* sent its tier's text (lines 54-58) and a NotificationLog row is added
\* whatever the send returned (lines 63-70); the rows commit at the end.
\* A send is recorded with the job that made it, the time, and what it
\* returned.
CheckAndSendInactivityAlarms(job, today, gateway_ok) ==
    LET targets == InactivityTargets(today)
        rank(u) == Cardinality({v \in targets : v <= u})
        tier(u) == TierOf(today - users[u].last_att_date[1])[1]
    IN  /\ job \notin ran
        /\ ran' = ran \cup {job}
        /\ sends' = sends \cup
              {[job |-> job, user_id |-> u,
                token |-> users[u].fcm_token, type |-> tier(u).alert_type,
                day |-> now, minute |-> kst_minute,
                result |-> SendFcmNotification(users[u].fcm_token, FcmParameters,
                                               gateway_ok)] : u \in targets}
        /\ notification_logs' = notification_logs \cup
              {[log_id |-> Cardinality(notification_logs) + rank(u), user_id |-> u,
                msg_id |-> tier(u).msg_id, alert_type |-> tier(u).alert_type,
                sent_at |-> now] : u \in targets}
        /\ UNCHANGED <<s3, nextKey, got, kst_minute, diary_feedbacks, ai_feedback,
                       reconcilerVars, now, users, attendance, diaries, nextDiaryId, req,
                       analysisVars, aiQueue, upd, cb>>

----------------------------------------------------------------------------
(***************************************************************************)
(* Custom daily-alarm sweep: services/notification.py                      *)
(* send_custom_daily_alarm, run by scheduled_custom_alarm_job at every     *)
(* minute (cron minute='*').                                               *)
(***************************************************************************)

\* A minute of the UTC+9 clock ends; at midnight the date moves on.  The
\* minute's job is due again.
MinutePasses ==
    /\ kst_minute + 1 = MinutesPerDay => now < MaxDay
    /\ kst_minute' = (kst_minute + 1) % MinutesPerDay
    /\ now' = IF kst_minute + 1 = MinutesPerDay THEN now + 1 ELSE now
    /\ ran' = IF kst_minute + 1 = MinutesPerDay THEN {}
              ELSE ran \ {"scheduled_custom_alarm_job"}
    /\ UNCHANGED <<s3, nextKey, got, notification_logs, sends, diary_feedbacks,
                   ai_feedback, reconcilerVars, users, attendance, diaries, nextDiaryId,
                   req, analysisVars, aiQueue, upd, cb>>

\* Lines 83-87: the time of day without seconds and the weekday (0 = Monday)
\* of datetime.now(KST); day 1 of the calendar is a Monday.
CurrentTime == [minute |-> kst_minute, second |-> 0]
CurrentWeekday == (now - 1) % 7

\* Line 97: User.daily_alarm_time == current_time.
TimeAlreadyPassed(daily_alarm_time, current_time) ==
    daily_alarm_time # None /\ daily_alarm_time[1].minute <= current_time.minute
TimeMatches(daily_alarm_time, current_time) ==
    daily_alarm_time = Some(current_time)

\* Lines 93-109: the users whose reminder is due at this tick.
AlarmRecipients ==
    {u \in Users : /\ users[u].is_push_enabled
                   /\ users[u].is_daily_alarm_on
                   /\ TimeMatches(users[u].daily_alarm_time, CurrentTime)
                   /\ users[u].fcm_token # None
                   /\ users[u].daily_alarm_days # {}
                   /\ CurrentWeekday \in users[u].daily_alarm_days}

\* One run of send_custom_daily_alarm at the current minute, the push
\* gateway up or down: every recipient is sent the reminder (lines 112-116).
SendCustomDailyAlarm(gateway_ok) ==
    /\ "scheduled_custom_alarm_job" \notin ran
    /\ ran' = ran \cup {"scheduled_custom_alarm_job"}
    /\ sends' = sends \cup
          {[job |-> "scheduled_custom_alarm_job", user_id |-> u,
            token |-> users[u].fcm_token, type |-> "CUSTOM_ALARM",
            day |-> now, minute |-> kst_minute,
            result |-> SendFcmNotification(users[u].fcm_token, FcmParameters,
                                           gateway_ok)] : u \in AlarmRecipients}
    /\ UNCHANGED <<s3, nextKey, got, kst_minute, notification_logs, diary_feedbacks,
                   ai_feedback, reconcilerVars, now, users, attendance, diaries,
                   nextDiaryId, req, analysisVars, aiQueue, upd, cb>>

----------------------------------------------------------------------------

Init ==
    /\ now = 1
    /\ users = [u \in Users |-> NewUser]
    /\ attendance = {}
    /\ diaries = {}
    /\ nextDiaryId = 1
    /\ req = [r \in Slots |-> IdleReq]
    /\ emotion_analysis = {}
    /\ solution_logs = {}
    /\ nextAnalysisId = 1
    /\ nextLogId = 1
    /\ aiQueue = {}
    /\ upd = IdleUpd
    /\ cb = IdleCb
    /\ achievements = {}
    /\ pushes = {}
    /\ cbs = [c \in CbSlots |-> IdleCbSlot]
    /\ del = IdleDel
    /\ s3 = {}
    /\ nextKey = 1
    /\ got = IdleGot
    /\ kst_minute = 0
    /\ notification_logs = {}
    /\ sends = {}
    /\ diary_feedbacks = {}
    /\ ai_feedback = {}
    /\ ran = {}

(***************************************************************************)
(* SpecCheckIn: concurrent createDiary requests of the users across        *)
(* midnights; the AI server is unreachable, so no analysis is in flight.   *)
(***************************************************************************)
NextCheckIn ==
    \/ Tick
    \/ \E r \in Slots, u \in Users : GetCurrentUser(r, u, Some("a"), None, None)
    \/ \E r \in Slots : CheckExistingAttendance(r)
    \/ \E r \in Slots : LockUserAndFlush(r)
    \/ \E r \in Slots : CreateDiaryFails(r)
    \/ \E r \in Slots : CommitCreateDiary(r)
    \/ \E r \in Slots : DispatchAnalysis(r, FALSE)
    \/ \E r \in Slots : Respond(r)

SpecCheckIn == Init /\ [][NextCheckIn]_vars

(***************************************************************************)
(* SpecAnalysis: one day of diary writing, editing and analysis callbacks. *)
(* updateDiary and the callback interleave step by step; a createDiary     *)
(* request is served from start to end between them (its steps touch no    *)
(* row an update or a callback reads before its commit).  One user writes  *)
(* the diaries; the other only tries to edit them.  The AI server is given *)
(* one request at a time.                                                  *)
(***************************************************************************)
AiCategories == {"NORMAL", "EE"}
AiResults ==
    {[mbi_category |-> c, ai_message |-> "summary", recommendations |-> <<1>>]
        : c \in AiCategories}
UpdateInputs == {<<Some("b"), None>>, <<None, None>>}

\* No createDiary request is being served.
NoCreateInProgress == \A r \in Slots : req[r].pc = "idle"

NextAnalysis ==
    \/ /\ upd.pc = "idle" /\ cb.pc = "idle"
       /\ GetCurrentUser("r1", 1, Some("a"), None, None)
    \/ CheckExistingAttendance("r1")
    \/ LockUserAndFlush("r1")
    \/ CommitCreateDiary("r1")
    \/ \E delivered \in BOOLEAN : DispatchAnalysis("r1", delivered)
    \/ Respond("r1")
    \/ /\ NoCreateInProgress
       /\ \E m \in aiQueue, result \in AiResults, again \in BOOLEAN :
             ReceiveAiResult(m, result, again)
    \/ CallbackRespond
    \/ /\ NoCreateInProgress
       /\ \E d \in 1..MaxDiaries, u \in Users, in \in UpdateInputs :
             UpdateDiaryGet(d, u, in[1], in[2])
    \/ UpdateDiaryWithImage
    \/ UpdateDiaryBackground(TRUE)
    \/ UpdateRespond

SpecAnalysis == Init /\ [][NextAnalysis]_vars

(***************************************************************************)
(* SpecMedal: one day on which a user writes diaries and registers or      *)
(* drops a push token, while the AI server's answers are served by two     *)
(* callbacks side by side.  A createDiary request and a settings update    *)
(* are served from start to end between the callbacks.                     *)
(***************************************************************************)
CallbackResults ==
    {[mbi_category |-> c, ai_message |-> "summary", recommendations |-> <<1, 2>>]
        : c \in AiCategories}
UserInfoUpdates ==
    {[persona |-> None, is_push_enabled |-> None, fcm_token |-> Some("token")],
     [persona |-> None, is_push_enabled |-> Some(FALSE), fcm_token |-> None]}

\* No callback and no deleteDiary is being served.
ReconcilerIdle == del.pc = "idle" /\ \A c \in CbSlots : cbs[c].pc = "idle"

NextMedal ==
    \/ /\ ReconcilerIdle
       /\ GetCurrentUser("r1", 1, Some("a"), None, None)
    \/ CheckExistingAttendance("r1")
    \/ LockUserAndFlush("r1")
    \/ CommitCreateDiary("r1")
    \/ \E delivered \in BOOLEAN : DispatchAnalysis("r1", delivered)
    \/ Respond("r1")
    \/ /\ NoCreateInProgress /\ ReconcilerIdle
       /\ \E user_in \in UserInfoUpdates : UpdateUserInfo(1, user_in)
    \/ /\ NoCreateInProgress
       /\ \E c \in CbSlots, m \in aiQueue, result \in CallbackResults, again \in BOOLEAN :
             CallbackLoad(c, m, result, again)
    \/ \E c \in CbSlots : CallbackCommit(c)
    \/ \E c \in CbSlots, gateway_ok \in BOOLEAN : CallbackNotify(c, gateway_ok)
    \/ \E c \in CbSlots, gateway_ok \in BOOLEAN : CallbackFinish(c, gateway_ok)
    \/ \E c \in CbSlots : CallbackEnd(c)

SpecMedal == Init /\ [][NextMedal]_vars

(***************************************************************************)
(* SpecDelete: one day on which a user writes and deletes diaries while    *)
(* the AI server's answers are served, one callback at a time.  A          *)
(* createDiary request is served from start to end between the others.     *)
(***************************************************************************)
NextDelete ==
    \/ /\ ReconcilerIdle
       /\ GetCurrentUser("r1", 1, Some("a"), None, None)
    \/ CheckExistingAttendance("r1")
    \/ LockUserAndFlush("r1")
    \/ CommitCreateDiary("r1")
    \/ \E delivered \in BOOLEAN : DispatchAnalysis("r1", delivered)
    \/ Respond("r1")
    \/ /\ NoCreateInProgress
       /\ \E m \in aiQueue, result \in CallbackResults, again \in BOOLEAN :
             CallbackLoad("c1", m, result, again)
    \/ CallbackCommit("c1")
    \/ \E gateway_ok \in BOOLEAN : CallbackNotify("c1", gateway_ok)
    \/ \E gateway_ok \in BOOLEAN : CallbackFinish("c1", gateway_ok)
    \/ CallbackEnd("c1")
    \/ /\ NoCreateInProgress
       /\ \E d \in 1..MaxDiaries : DeleteDiaryGet(d, 1)
    \/ DeleteDiaryCommit
    \/ DeleteRespond

SpecDelete == Init /\ [][NextDelete]_vars

(***************************************************************************)
(* SpecStorage: one day on which a user writes diaries, with and without   *)
(* an image and with and without a body, while both users read and delete  *)
(* diaries by id, the other user tries to edit them, and the AI server's   *)
(* answers arrive.  The requests are served one after the other.           *)
(***************************************************************************)
CreateBodies == {<<Some("a"), None>>, <<None, None>>, <<None, Some({})>>}

\* No request is being served.
AllIdle ==
    /\ NoCreateInProgress
    /\ upd.pc = "idle" /\ cb.pc = "idle" /\ del.pc = "idle" /\ got.pc = "idle"

NextStorage ==
    \/ /\ AllIdle
       /\ \E body \in CreateBodies : GetCurrentUser("r1", 1, body[1], body[2], None)
    \/ /\ AllIdle
       /\ \E body \in CreateBodies, uploaded \in BOOLEAN :
             CreateDiaryWithImage("r1", 1, body[1], body[2], None, uploaded)
    \/ CheckExistingAttendance("r1")
    \/ LockUserAndFlush("r1")
    \/ CommitCreateDiary("r1")
    \/ \E delivered \in BOOLEAN : DispatchAnalysis("r1", delivered)
    \/ Respond("r1")
    \/ /\ AllIdle
       /\ \E m \in aiQueue, result \in AiResults :
             result.mbi_category = "NORMAL" /\ ReceiveAiResult(m, result, FALSE)
    \/ CallbackRespond
    \/ /\ AllIdle
       /\ \E d \in 1..MaxDiaries, u \in Users : ReadDiary(d, u)
    \/ ReadRespond
    \/ /\ AllIdle
       /\ \E d \in 1..MaxDiaries : UpdateDiaryGet(d, 2, Some("b"), None)
    \/ UpdateRespond
    \/ /\ AllIdle
       /\ \E d \in 1..MaxDiaries, u \in Users : DeleteDiaryGet(d, u)
    \/ \E deleted \in BOOLEAN : DeleteImageFromS3(deleted)
    \/ DeleteDiaryCommit
    \/ DeleteRespond

SpecStorage == Init /\ [][NextStorage]_vars

(***************************************************************************)
(* SpecEdit: a user writes one diary, with text, keywords or both, and     *)
(* edits it again and again; a PATCH carries a new text, new keywords,     *)
(* both or neither.  The AI server is unreachable.                         *)
(***************************************************************************)
EditBodies ==
    {<<Some("a"), None>>, <<None, Some({"k"})>>, <<Some("a"), Some({"k"})>>}
EditInputs ==
    {<<content, keywords>> : content \in {None, Some("a"), Some("b")},
                             keywords \in {None, Some({"k"}), Some({"l"}), Some({})}}

NextEdit ==
    \/ /\ diaries = {} /\ upd.pc = "idle"
       /\ \E body \in EditBodies : GetCurrentUser("r1", 1, body[1], body[2], None)
    \/ CheckExistingAttendance("r1")
    \/ LockUserAndFlush("r1")
    \/ CommitCreateDiary("r1")
    \/ DispatchAnalysis("r1", FALSE)
    \/ Respond("r1")
    \/ /\ NoCreateInProgress
       /\ \E in \in EditInputs : UpdateDiaryGet(1, 1, in[1], in[2])
    \/ UpdateDiaryWithImage
    \/ UpdateDiaryBackground(FALSE)
    \/ UpdateRespond

SpecEdit == Init /\ [][NextEdit]_vars

(***************************************************************************)
(* The sweeps start from the second day of a service with two users: user  *)
(* 1 signed up on day 1 and wrote diary 1, which was analysed; on day 2    *)
(* user 2 signed up and wrote diary 2 and user 1 wrote diary 3, which      *)
(* were analysed; then user 2 wrote diary 4 while the AI server was        *)
(* unreachable.                                                            *)
(***************************************************************************)
WrittenDiaries ==
    {[diary_id |-> 1, user_id |-> 1, content |-> Some("a"), keywords |-> None,
      image_url |-> None, created_at |-> 1],
     [diary_id |-> 2, user_id |-> 2, content |-> Some("a"), keywords |-> None,
      image_url |-> None, created_at |-> 2],
     [diary_id |-> 3, user_id |-> 1, content |-> Some("a"), keywords |-> None,
      image_url |-> None, created_at |-> 2],
     [diary_id |-> 4, user_id |-> 2, content |-> Some("a"), keywords |-> None,
      image_url |-> None, created_at |-> 2]}
WrittenAnalyses ==
    {[analysis_id |-> d, diary_id |-> d, mbi_category |-> "NONE",
      ai_message |-> "summary", src |-> Some([content |-> Some("a"), keywords |-> None])]
        : d \in {1, 2, 3}}
InitSecondDay ==
    /\ now = 2
    /\ users = [u \in Users |->
                  IF u = 1
                  THEN [NewUser EXCEPT !.last_att_date = Some(2), !.current_streak = 2]
                  ELSE [NewUser EXCEPT !.last_att_date = Some(2), !.current_streak = 1,
                                       !.created_at = 2]]
    /\ attendance = {[att_id |-> 1, user_id |-> 1, att_date |-> 1],
                     [att_id |-> 2, user_id |-> 2, att_date |-> 2],
                     [att_id |-> 3, user_id |-> 1, att_date |-> 2]}
    /\ diaries = WrittenDiaries
    /\ nextDiaryId = 5
    /\ req = [r \in Slots |-> IdleReq]
    /\ emotion_analysis = WrittenAnalyses
    /\ solution_logs = {}
    /\ nextAnalysisId = 4
    /\ nextLogId = 1
    /\ aiQueue = {}
    /\ upd = IdleUpd
    /\ cb = IdleCb
    /\ achievements = {}
    /\ pushes = {}
    /\ cbs = [c \in CbSlots |-> IdleCbSlot]
    /\ del = IdleDel
    /\ s3 = {}
    /\ nextKey = 1
    /\ got = IdleGot
    /\ kst_minute = 0
    /\ notification_logs = {}
    /\ sends = {}
    /\ ai_feedback = {}
    /\ ran = {}

(***************************************************************************)
(* SpecFeedback: the days after, with the feedback sweep run at most once  *)
(* a day.  The ratings of the diaries are in the table from the start      *)
(* (they are written outside this repository's sources), any of them.      *)
(***************************************************************************)
LastFeedbackDay == 30

InitFeedback ==
    /\ InitSecondDay
    /\ \E rated \in SUBSET {1, 2, 3, 4} :
          diary_feedbacks =
              {[feedback_id |-> d, diary_id |-> d, is_sent_to_ai |-> FALSE] : d \in rated}

NextFeedback ==
    \/ DayPasses(LastFeedbackDay)
    \/ \E transmitted \in BOOLEAN, committed \in BOOLEAN :
          SendFeedbackToAiServer(transmitted, committed)

SpecFeedback == InitFeedback /\ [][NextFeedback]_vars

(***************************************************************************)
(* SpecFeedbackEdit: the same days, on which user 1 also edits the text of *)
(* diary 3, which removes its analysis; the AI server is unreachable for   *)
(* the re-analysis.                                                        *)
(***************************************************************************)
NextFeedbackEdit ==
    \/ DayPasses(LastFeedbackDay)
    \/ \E transmitted \in BOOLEAN, committed \in BOOLEAN :
          SendFeedbackToAiServer(transmitted, committed)
    \/ UpdateDiaryGet(3, 1, Some("b"), None)
    \/ UpdateDiaryWithImage
    \/ UpdateDiaryBackground(FALSE)
    \/ UpdateRespond

SpecFeedbackEdit == InitFeedback /\ [][NextFeedbackEdit]_vars

(***************************************************************************)
(* SpecImage: a user writes one diary, with or without an image, and       *)
(* edits it again and again, with or without a new image; uploads,         *)
(* commits and storage deletes succeed or fail.  The AI server is          *)
(* unreachable.                                                            *)
(***************************************************************************)
ImageEditInputs == {<<None, None>>, <<Some("b"), None>>}

NextImage ==
    \/ /\ diaries = {} /\ upd.pc = "idle"
       /\ \/ GetCurrentUser("r1", 1, Some("a"), None, None)
          \/ \E uploaded \in BOOLEAN :
               CreateDiaryWithImage("r1", 1, Some("a"), None, None, uploaded)
    \/ CheckExistingAttendance("r1")
    \/ LockUserAndFlush("r1")
    \/ CommitCreateDiary("r1")
    \/ DispatchAnalysis("r1", FALSE)
    \/ Respond("r1")
    \/ /\ NoCreateInProgress
       /\ \E in \in ImageEditInputs : UpdateDiaryGet(1, 1, in[1], in[2])
    \/ \E uploaded \in BOOLEAN : UpdateDiaryUpload(uploaded)
    \/ UpdateDiaryWithImage
    \/ UpdateDiaryCommitFails
    \/ \E deleted \in BOOLEAN : UpdateDiaryDeleteOld(deleted)
    \/ UpdateDiaryBackground(FALSE)
    \/ UpdateRespond

SpecImage == Init /\ [][NextImage]_vars

(***************************************************************************)
(* SpecPersona: a user writes diaries, with a persona override or         *)
(* without, and changes the stored persona at any moment; the AI server    *)
(* answers the requests it is given.                                       *)
(***************************************************************************)
PersonaOverrides == {None, Some(0), Some(3)}
PersonaUpdates ==
    {[persona |-> Some(p), is_push_enabled |-> None, fcm_token |-> None] : p \in {0, 2}}

NextPersona ==
    \/ /\ cb.pc = "idle"
       /\ \E persona \in PersonaOverrides :
             GetCurrentUser("r1", 1, Some("a"), None, persona)
    \/ CheckExistingAttendance("r1")
    \/ LockUserAndFlush("r1")
    \/ CommitCreateDiary("r1")
    \/ \E delivered \in BOOLEAN : DispatchAnalysis("r1", delivered)
    \/ Respond("r1")
    \/ \E user_in \in PersonaUpdates : UpdateUserInfo(1, user_in)
    \/ /\ NoCreateInProgress
       /\ \E m \in aiQueue, result \in AiResults :
             result.mbi_category = "NORMAL" /\ ReceiveAiResult(m, result, FALSE)
    \/ CallbackRespond

SpecPersona == Init /\ [][NextPersona]_vars

(***************************************************************************)
(* SpecPush: user 1 writes diaries during the first MaxDay days and both   *)
(* users change their notification settings; the inactivity sweep runs by  *)
(* its schedule and by the test endpoint, each at most once a day, on a    *)
(* server whose local date is the UTC+9 date or still the day before, and  *)
(* the push gateway is up or down.  Requests are served from start to end  *)
(* between the sweeps.                                                     *)
(***************************************************************************)
LastPushDay == 5

\* PATCH /users/info bodies: a token, push off, push off with a token, push on.
PushUpdates ==
    {[persona |-> None, is_push_enabled |-> None, fcm_token |-> Some("token")],
     [persona |-> None, is_push_enabled |-> Some(FALSE), fcm_token |-> None],
     [persona |-> None, is_push_enabled |-> Some(FALSE), fcm_token |-> Some("token")],
     [persona |-> None, is_push_enabled |-> Some(TRUE), fcm_token |-> None]}

\* date.today() (notification.py line 12) is the date of the server's local
\* timezone: the UTC+9 date, or the day before on a server behind UTC+9.
ServerToday == {now - 1, now}

NextPush ==
    \/ /\ NoCreateInProgress
       /\ DayPasses(LastPushDay)
    \/ /\ now <= MaxDay
       /\ GetCurrentUser("r1", 1, Some("a"), None, None)
    \/ CheckExistingAttendance("r1")
    \/ LockUserAndFlush("r1")
    \/ CommitCreateDiary("r1")
    \/ DispatchAnalysis("r1", FALSE)
    \/ Respond("r1")
    \/ /\ NoCreateInProgress
       /\ \E u \in Users, user_in \in PushUpdates : UpdateUserInfo(u, user_in)
    \/ /\ NoCreateInProgress
       /\ \E today \in ServerToday, gateway_ok \in BOOLEAN :
             CheckAndSendInactivityAlarms("scheduled_job", today, gateway_ok)
    \/ /\ NoCreateInProgress
       /\ \E today \in ServerToday, gateway_ok \in BOOLEAN :
             CheckAndSendInactivityAlarms("test_send_inactivity_push", today, gateway_ok)

SpecPush == Init /\ [][NextPush]_vars

(***************************************************************************)
(* SpecPhoto: a user writes diaries with an image; the photo of a diary   *)
(* or the whole diary is deleted while the AI server's answers are served  *)
(* step by step; storage deletes and commits succeed or fail.              *)
(***************************************************************************)
NextPhoto ==
    \/ /\ ReconcilerIdle
       /\ \E uploaded \in BOOLEAN :
             CreateDiaryWithImage("r1", 1, Some("a"), None, None, uploaded)
    \/ CheckExistingAttendance("r1")
    \/ LockUserAndFlush("r1")
    \/ CommitCreateDiary("r1")
    \/ \E delivered \in BOOLEAN : DispatchAnalysis("r1", delivered)
    \/ Respond("r1")
    \/ /\ NoCreateInProgress
       /\ \E m \in aiQueue, result \in CallbackResults :
             result.mbi_category = "NORMAL" /\ CallbackLoad("c1", m, result, FALSE)
    \/ CallbackCommit("c1")
    \/ \E gateway_ok \in BOOLEAN : CallbackNotify("c1", gateway_ok)
    \/ \E gateway_ok \in BOOLEAN : CallbackFinish("c1", gateway_ok)
    \/ CallbackEnd("c1")
    \/ /\ NoCreateInProgress
       /\ \E d \in 1..MaxDiaries : DeleteDiaryGet(d, 1)
    \/ \E deleted \in BOOLEAN : DeleteImageFromS3(deleted)
    \/ DeleteDiaryCommit
    \/ /\ NoCreateInProgress
       /\ \E d \in 1..MaxDiaries : DeleteDiaryPhotoGet(d, 1)
    \/ \E deleted \in BOOLEAN : DeleteDiaryPhotoImage(deleted)
    \/ \E committed \in BOOLEAN : DeleteDiaryPhotoCommit(committed)
    \/ DeleteRespond

SpecPhoto == Init /\ [][NextPhoto]_vars

(***************************************************************************)
(* SpecAlarm: MaxDay days of the minute clock.  The users' settings are in *)
(* the table from the start, any of AlarmSettings for each user (the alarm *)
(* columns are written outside this repository's sources); the job of a    *)
(* minute runs or is missed.                                               *)
(***************************************************************************)
AlarmSettings ==
    LET due == [NewUser EXCEPT !.fcm_token = Some("token"),
                               !.is_daily_alarm_on = TRUE,
                               !.daily_alarm_time = Some([minute |-> 1, second |-> 0]),
                               !.daily_alarm_days = {0, 1}]
    IN  {due,
         [due EXCEPT !.is_push_enabled = FALSE],
         [due EXCEPT !.fcm_token = None],
         [due EXCEPT !.is_daily_alarm_on = FALSE],
         [due EXCEPT !.daily_alarm_time = None],
         [due EXCEPT !.daily_alarm_time = Some([minute |-> 1, second |-> 30])],
         [due EXCEPT !.daily_alarm_time = Some([minute |-> 2, second |-> 0])],
         [due EXCEPT !.daily_alarm_days = {}],
         [due EXCEPT !.daily_alarm_days = {1, 2}]}

InitAlarm ==
    /\ users \in [Users -> AlarmSettings]
    /\ now = 1
    /\ attendance = {}
    /\ diaries = {}
    /\ nextDiaryId = 1
    /\ req = [r \in Slots |-> IdleReq]
    /\ emotion_analysis = {}
    /\ solution_logs = {}
    /\ nextAnalysisId = 1
    /\ nextLogId = 1
    /\ aiQueue = {}
    /\ upd = IdleUpd
    /\ cb = IdleCb
    /\ achievements = {}
    /\ pushes = {}
    /\ cbs = [c \in CbSlots |-> IdleCbSlot]
    /\ del = IdleDel
    /\ s3 = {}
    /\ nextKey = 1
    /\ got = IdleGot
    /\ kst_minute = 0
    /\ notification_logs = {}
    /\ sends = {}
    /\ diary_feedbacks = {}
    /\ ai_feedback = {}
    /\ ran = {}

NextAlarm ==
    \/ MinutePasses
    \/ \E gateway_ok \in BOOLEAN : SendCustomDailyAlarm(gateway_ok)

SpecAlarm == InitAlarm /\ [][NextAlarm]_vars

(***************************************************************************)
(* SpecInactivity: user 1 writes diaries during the first MaxDay days and  *)
(* stays away afterwards, user 2 never writes one; both choose their       *)
(* notification settings during the first MaxDay days.  The                *)
(* inactivity sweep runs by its schedule once a day, and by the test       *)
(* endpoint, called at most once a day.  The server's clock is set to      *)
(* UTC+9 and the push gateway is up.  Requests are served from start to    *)
(* end between the sweeps.                                                 *)
(***************************************************************************)
LastInactivityDay == 34

NextInactivity ==
    \/ /\ NoCreateInProgress /\ "scheduled_job" \in ran
       /\ DayPasses(LastInactivityDay)
    \/ /\ now <= MaxDay
       /\ GetCurrentUser("r1", 1, Some("a"), None, None)
    \/ CheckExistingAttendance("r1")
    \/ LockUserAndFlush("r1")
    \/ CommitCreateDiary("r1")
    \/ DispatchAnalysis("r1", FALSE)
    \/ Respond("r1")
    \/ /\ now <= MaxDay /\ NoCreateInProgress
       /\ \E u \in Users, user_in \in UserInfoUpdates : UpdateUserInfo(u, user_in)
    \/ /\ NoCreateInProgress
       /\ CheckAndSendInactivityAlarms("scheduled_job", now, TRUE)
    \/ /\ NoCreateInProgress
       /\ CheckAndSendInactivityAlarms("test_send_inactivity_push", now, TRUE)

SpecInactivity == Init /\ [][NextInactivity]_vars

----------------------------------------------------------------------------
(***************************************************************************)
(* Properties of the check-in workflow (SpecCheckIn).                      *)
(***************************************************************************)

\* Number of Attendance rows of user u on the consecutive days ending at day d.
RECURSIVE RunLength(_, _)
RunLength(u, d) ==
    IF d < 1 \/ AttRows(u, d) = {} THEN 0 ELSE 1 + RunLength(u, d - 1)

\* The diaries of user u.
DiariesOf(u) == {d \in diaries : d.user_id = u}

\* C1: createDiary is atomic.  A step in which a request fails (diary insert,
\* create_attendance or commit raising) changes no committed row; after every
\* step each stored diary has an Attendance row of its user for its day; and
\* the attendance table and the streak never change without a diary being
\* stored in the same step.
C1_CreateDiaryAtomic ==
    [][ /\ \A r \in Slots :
             (req[r].outcome # "error" /\ req'[r].outcome = "error")
                 => (diaries' = diaries /\ attendance' = attendance /\ users' = users)
        /\ \A d \in diaries' :
             \E a \in attendance' : a.user_id = d.user_id /\ a.att_date = d.created_at
        /\ (attendance' # attendance \/ users' # users)
             => (diaries \subseteq diaries' /\ diaries' # diaries)
      ]_vars

\* C1 witness: a request failed after create_attendance had stamped the user
\* and flushed the attendance row, and nothing of it is stored.
C1_Witness ==
    \E r \in Slots :
        /\ req[r].pc = "done" /\ req[r].raised = "Exception"
        /\ req[r].today # 0 /\ ~req[r].existing
        /\ AttRows(req[r].user, req[r].today) = {}
        /\ DiariesOf(req[r].user) = {}
        /\ users[req[r].user] = NewUser

\* C2: at most one Attendance row per (user, calendar day) in every state.
C2_OneAttendancePerDay ==
    \A u \in Users, d \in Days : Cardinality(AttRows(u, d)) <= 1

\* Two requests of one user that both read the same date and both found no
\* attendance row for it, and have both ended.
Raced(r1, r2) ==
    /\ r1 # r2
    /\ req[r1].pc \in {"committed", "done"} /\ req[r2].pc \in {"committed", "done"}
    /\ req[r1].today # 0 /\ req[r1].today = req[r2].today
    /\ req[r1].user = req[r2].user
    /\ ~req[r1].existing /\ ~req[r2].existing

\* C2 witness: two concurrent createDiary calls of one user raced on one day,
\* one committed the day's row and the other was refused by the constraint.
C2_Witness ==
    \E r1, r2 \in Slots :
        /\ Raced(r1, r2)
        /\ req[r1].outcome = "ok" /\ req[r2].raised = "IntegrityError"
        /\ Cardinality(AttRows(req[r1].user, req[r1].today)) = 1

\* C3: the streak equals the length of the unbroken run of days with an
\* Attendance row that ends at last_att_date.
C3_StreakIsRunLength ==
    \A u \in Users :
        /\ users[u].last_att_date = None => users[u].current_streak = 0
        /\ \A d \in Days :
             users[u].last_att_date = Some(d) => users[u].current_streak = RunLength(u, d)

\* C4: two concurrent createDiary calls of one user on one day never both
\* commit a streak update, and while that day is the user's last attendance
\* day the stored streak is the one the single committed check-in computed.
C4_NoDoubleIncrement ==
    \A r1, r2 \in Slots :
        Raced(r1, r2) =>
            /\ ~(req[r1].outcome = "ok" /\ req[r2].outcome = "ok")
            /\ (req[r1].outcome = "ok"
                 /\ users[req[r1].user].last_att_date = Some(req[r1].today))
                => users[req[r1].user].current_streak
                     = StreakLogic(req[r1].snap, req[r1].today).current_streak

\* C4 witness: the race on a day that continues a streak; the winner moved the
\* streak from 1 to 2 and the loser is over.
C4_Witness ==
    \E r1, r2 \in Slots :
        /\ Raced(r1, r2)
        /\ req[r1].outcome = "ok" /\ req[r2].pc = "done"
        /\ req[r1].snap.current_streak = 1
        /\ users[req[r1].user].current_streak = 2

\* C5: a createDiary that found today's Attendance row commits a diary and
\* nothing else: streak, last_att_date and the attendance table are unchanged.
C5_SecondDiaryOnlyAddsDiary ==
    [][ \A r \in Slots :
          (req[r].pc = "checked" /\ req[r].existing /\ req'[r].pc = "committed")
              => /\ users' = users
                 /\ attendance' = attendance
                 /\ diaries \subseteq diaries'
                 /\ Cardinality(diaries') = Cardinality(diaries) + 1
      ]_vars

\* C5 witness: the second diary of a day is committed on a day that continued
\* a streak.
C5_Witness ==
    \E r \in Slots :
        /\ req[r].pc = "committed" /\ req[r].existing
        /\ users[req[r].user].current_streak = 2
        /\ Cardinality(DiariesOf(req[r].user)) >= 2

\* C6: a duplicate attendance is never surfaced as an error: every createDiary
\* call with a valid body in which no other fault occurred ends with success
\* and its diary stored.
C6_DuplicateAttendanceBenign ==
    \A r \in Slots :
        (req[r].pc = "done" /\ req[r].raised \notin {"Exception", "ValidationError"})
            => /\ req[r].outcome = "ok"
               /\ \E d \in diaries : d.diary_id = req[r].diary_id

----------------------------------------------------------------------------
(***************************************************************************)
(* Properties of editing and analysis (SpecAnalysis).                      *)
(***************************************************************************)

\* The text a diary row holds, as the AI server is given it.
TextOf(x) == Some([content |-> x.content, keywords |-> x.keywords])

\* C7: every stored EmotionAnalysis and SolutionLog row was produced from the
\* content and keywords its diary holds now.
C7_NoStaleAnalysis ==
    /\ \A e \in emotion_analysis : \A x \in DiaryRows(e.diary_id) : e.src = TextOf(x)
    /\ \A l \in solution_logs : \A x \in DiaryRows(l.diary_id) : l.src = TextOf(x)

\* C8: when an updateDiary that changed the content commits, the diary has no
\* EmotionAnalysis and no SolutionLog row left in the tables, and the diary it
\* returns shows none.
C8_EditInvalidatesAnalysis ==
    [][ (upd.pc = "loaded" /\ upd'.pc = "committed" /\ upd'.is_changed)
          => /\ {e \in emotion_analysis' : e.diary_id = upd.diary_id} = {}
             /\ {l \in solution_logs' : l.diary_id = upd.diary_id} = {}
             /\ upd'.ret_analysis = {} /\ upd'.ret_logs = {}
      ]_vars

\* C9: a diary has at most one EmotionAnalysis row.
C9_AtMostOneAnalysis ==
    \A d \in 1..MaxDiaries : Cardinality(AnalysesOf(d)) <= 1

\* C10: the row a callback stores has the AI's ai_message, and its category
\* is "NONE" when the diary's owner has fewer than 3 diaries as the callback
\* is applied, and the category the AI supplied otherwise.
C10_CategoryByDiaryCount ==
    [][ (cb.pc = "idle" /\ cb'.pc = "committed")
          => \E e \in emotion_analysis' \ emotion_analysis :
               /\ emotion_analysis' = emotion_analysis \cup {e}
               /\ e.diary_id = cb'.diary_id
               /\ e.ai_message = cb'.ai_message
               /\ \A x \in DiaryRows(cb'.diary_id) :
                    e.mbi_category =
                        IF Cardinality({y \in diaries : y.user_id = x.user_id}) < 3
                        THEN "NONE" ELSE cb'.mbi_category
      ]_vars

\* C10 witness: a callback that supplied "EE" for a diary of a user with three
\* diaries stored "EE", next to a row of an earlier callback forced to "NONE".
C10_Witness ==
    /\ cb.pc = "committed" /\ cb.mbi_category = "EE"
    /\ \E e \in emotion_analysis :
         /\ e.analysis_id = cb.analysis_id /\ e.mbi_category = "EE"
         /\ e.ai_message = cb.ai_message
    /\ \E e \in emotion_analysis : e.mbi_category = "NONE" /\ e.ai_message = "summary"
    /\ DiaryCount(1) = 3

\* C18: when an updateDiary that changed the content has committed, its
\* background task hands the AI service a request for that diary, made of the
\* diary id, the user id and a persona, for the diary's new text.
C18_EditRequestsAnalysis ==
    [][ (upd.pc = "committed" /\ upd.is_changed /\ upd'.pc = "done")
          => \E m \in aiQueue' :
               /\ m.diary_id = upd.diary_id
               /\ m.user_id = upd.user
               /\ m.src = HistoryOf(upd.diary_id)
      ]_vars

\* The update being served supplies no content and no keywords, or the ones
\* the diary had when the update loaded it.
OnlyImageSupplied ==
    /\ upd.in_content = None \/ upd.in_content = upd.content
    /\ upd.in_keywords = None \/ upd.in_keywords = upd.keywords

----------------------------------------------------------------------------
(***************************************************************************)
(* Properties of the callback's solutions and medals (SpecMedal).          *)
(***************************************************************************)

\* C11: SolutionLog rows are created by the committing step of a callback
\* only, and only when the owner of the diary has at least 3 diaries: then
\* one row per recommendation, each for that diary with is_selected and
\* is_completed false.  Below 3 diaries the callback commits its
\* EmotionAnalysis and creates no SolutionLog row.
C11_SolutionsFromThirdDiary ==
    [][ LET new == solution_logs' \ solution_logs
        IN  /\ new # {} => \E c \in CbSlots :
                             cbs[c].pc = "loaded" /\ cbs'[c].pc = "committed"
            /\ \A c \in CbSlots :
                 (cbs[c].pc = "loaded" /\ cbs'[c].pc = "committed") =>
                    LET recs == cbs[c].result[1].recommendations
                    IN  /\ Cardinality(emotion_analysis') = Cardinality(emotion_analysis) + 1
                        /\ IF DiaryCount(cbs[c].user_id) >= 3
                           THEN /\ Cardinality(new) = Len(recs)
                                /\ \A i \in 1..Len(recs) :
                                     \E l \in new : l.activity_id = recs[i]
                                /\ \A l \in new : /\ l.diary_id = cbs[c].diary_id
                                                  /\ l.is_selected = FALSE
                                                  /\ l.is_completed = FALSE
                           ELSE new = {}
      ]_vars

\* C11 witness: a callback for a user with three diaries has stored its two
\* recommendations, and an earlier analysis of a diary, stored below the
\* threshold, has no solution.
C11_Witness ==
    /\ \E c \in CbSlots :
         /\ cbs[c].pc = "committed"
         /\ Cardinality(cbs[c].logs) = 2
         /\ cbs[c].logs = {l.log_id : l \in LogsOf(cbs[c].diary_id)}
    /\ \E e \in emotion_analysis : e.mbi_category = "NONE" /\ LogsOf(e.diary_id) = {}

MedalDue(c) ==
    /\ RecoveryDetected(cbs[c].user_id)
    /\ \A m \in Medals : AchievementsOf(cbs[c].user_id, m.medal_id) = {}

\* A step in which callback c, having committed its analysis, ends.
Finishes(c) ==
    cbs[c].pc = "finishing" /\ cbs'[c].pc = "done" /\ cbs[c].analysis_id # 0

\* C15: a callback that has committed its analysis awards the recovery medal
\* exactly when its user satisfies the medal rule.
C15_MedalAwardedByRule ==
    [][ \A c \in CbSlots :
          Finishes(c) =>
             (MedalDue(c) <=>
                \E a \in achievements' \ achievements : a.user_id = cbs[c].user_id)
      ]_vars

\* C16: the medal check does not depend on the push: a callback of a user
\* without a push token that has committed its analysis awards the recovery
\* medal when the user satisfies the medal rule.
C16_MedalWithoutPushToken ==
    [][ \A c \in CbSlots :
          (Finishes(c) /\ users[cbs[c].user_id].fcm_token = None /\ cbs[c].token = None
             /\ MedalDue(c))
             => \E a \in achievements' \ achievements : a.user_id = cbs[c].user_id
      ]_vars

\* C17: a callback that has committed its analysis ends with its success
\* response and raises nothing, whatever becomes of its pushes.
C17_PushFailuresContained ==
    \A c \in CbSlots :
        (cbs[c].pc = "done" /\ cbs[c].analysis_id # 0)
            => (cbs[c].raised = "none" /\ cbs[c].msg = SavedMsg)

----------------------------------------------------------------------------
(***************************************************************************)
(* Properties of callbacks and deletion (SpecDelete).                      *)
(***************************************************************************)

\* C12: the threshold is evaluated on the diaries stored when the callback is
\* served: the count a callback works with is the number of diaries of the
\* diary's owner at that moment, whatever it was when the analysis was
\* requested, and that count decides the stored category and the solutions.
C12_CountAtCallbackTime ==
    [][ \A c \in CbSlots :
          /\ (cbs[c].pc = "idle" /\ cbs'[c].pc = "loaded")
                => cbs'[c].diary_count = DiaryCount(cbs'[c].user_id)
          /\ (cbs[c].pc = "loaded" /\ cbs'[c].pc = "committed")
                => /\ \E e \in emotion_analysis' \ emotion_analysis :
                        e.mbi_category = IF cbs[c].diary_count < 3 THEN "NONE"
                                         ELSE cbs[c].result[1].mbi_category
                   /\ (solution_logs' # solution_logs) <=> (cbs[c].diary_count >= 3)
      ]_vars

\* C12 witness: the analysis was requested when the user had 3 diaries, one
\* was deleted before the callback, and the callback, given "EE", stored
\* "NONE" and no solution.
C12_Witness ==
    \E c \in CbSlots :
        /\ cbs[c].pc = "committed"
        /\ cbs[c].requested_at_count = 3 /\ cbs[c].diary_count = 2
        /\ cbs[c].result[1].mbi_category = "EE"
        /\ cbs[c].logs = {}
        /\ \E e \in emotion_analysis :
             e.analysis_id = cbs[c].analysis_id /\ e.mbi_category = "NONE"

\* C13: a callback for a diary that is no longer stored ends at once with
\* "Diary not found", raises nothing, writes no EmotionAnalysis, SolutionLog
\* or Achievement row and sends no notification, up to its response.
C13_CallbackForDeletedDiary ==
    [][ \A c \in CbSlots :
          /\ (cbs[c].pc = "idle" /\ cbs'[c].pc # "idle"
                /\ DiaryRows(cbs'[c].diary_id) = {})
                => /\ cbs'[c].pc = "done"
                   /\ cbs'[c].msg = "Diary not found"
                   /\ cbs'[c].raised = "none"
                   /\ UNCHANGED <<analysisVars, achievements, pushes>>
          /\ (cbs[c].msg = "Diary not found" /\ cbs'[c] # cbs[c])
                => /\ cbs'[c].pc = "idle"
                   /\ UNCHANGED <<analysisVars, achievements, pushes>>
      ]_vars

\* C13 witness: the diary of an analysis request was deleted, and the
\* callback for it has answered "Diary not found".
C13_Witness ==
    \E c \in CbSlots :
        /\ cbs[c].pc = "done" /\ cbs[c].msg = "Diary not found"
        /\ cbs[c].diary_id \in 1..(nextDiaryId - 1)
        /\ DiaryRows(cbs[c].diary_id) = {}
        /\ emotion_analysis = {} /\ solution_logs = {}

\* C20: every EmotionAnalysis row and every SolutionLog row references a
\* stored diary; in particular none references a diary that a deleteDiary has
\* deleted, however a callback for the diary and its deletion interleave.
C20_NoOrphanedAnalysis ==
    /\ \A e \in emotion_analysis : DiaryRows(e.diary_id) # {}
    /\ \A l \in solution_logs : DiaryRows(l.diary_id) # {}

\* C20 witness: a deleteDiary has committed the deletion of a diary that had
\* an analysis and solutions, and none of them is left.
C20_Witness ==
    /\ del.pc = "done" /\ del.outcome = "ok"
    /\ del.emotion_analysis # {} /\ del.solution_logs # {}
    /\ DiaryRows(del.diary_id) = {}
    /\ AnalysesOf(del.diary_id) = {} /\ LogsOf(del.diary_id) = {}

----------------------------------------------------------------------------
(***************************************************************************)
(* Properties of reading, editing and deleting by id (SpecStorage).        *)
(***************************************************************************)

\* C21: deleteDiary removes the diary row even when deleting the external
\* image fails: once the delete of a diary with an image has been answered,
\* the answer is a success and the row is gone, whatever the object storage
\* did (a refusal by the foreign key aside).
C21_ImageFailureDoesNotBlockDelete ==
    (del.pc = "done" /\ del.image_url # None /\ del.raised # "IntegrityError")
        => (del.outcome = "ok" /\ DiaryRows(del.diary_id) = {})

\* No diary with id d belongs to user u: there is none, or it is another
\* user's.
NotOwned(d, u) == \A x \in diaries : x.diary_id = d => x.user_id # u

\* What the users have stored: diaries, analyses, solutions and images.
Stored == <<diaries, emotion_analysis, solution_logs, s3>>

\* C28: getDiary, updateDiary and deleteDiary on a diary that does not exist
\* or belongs to another user fail with a not-found error and change no
\* state: the step that takes such a request answers not-found, and neither
\* that step nor any step until the answer has gone out changes a diary, an
\* analysis, a solution or a stored image.
C28_ForeignDiaryUntouched ==
    [][/\ (got.pc = "idle" /\ got'.pc # "idle" /\ NotOwned(got'.diary_id, got'.user))
            => (got'.outcome = "not_found" /\ Stored' = Stored)
       /\ (upd.pc = "idle" /\ upd'.pc # "idle" /\ NotOwned(upd'.diary_id, upd'.user))
            => (upd'.outcome = "not_found" /\ Stored' = Stored)
       /\ (del.pc = "idle" /\ del'.pc # "idle" /\ NotOwned(del'.diary_id, del'.user))
            => (del'.outcome = "not_found" /\ Stored' = Stored)
       /\ ("not_found" \in {got.outcome, upd.outcome, del.outcome})
            => Stored' = Stored]_vars

\* C28 witness: the delete of another user's diary, which has an image and
\* an analysis, has been refused.
C28_Witness ==
    /\ del.pc = "done" /\ del.outcome = "not_found" /\ del.user = 2
    /\ \E x \in DiaryRows(del.diary_id) : x.user_id = 1 /\ x.image_url # None
    /\ AnalysesOf(del.diary_id) # {}

\* The rows a check-in writes: diaries, attendance and the users' streaks.
CheckInRows == <<diaries, attendance, users>>

\* C29: createDiary with neither content nor keywords fails with a validation
\* error and persists no Diary row, no Attendance row and no streak change:
\* the step that takes such a request, with or without an image, ends it
\* with ValidationError, and nothing is written by it or before its answer
\* has gone out.
C29_EmptyBodyRejected ==
    [][/\ \A r \in Slots, u \in Users, keywords \in {None, Some({})} :
            (\/ GetCurrentUser(r, u, None, keywords, None)
             \/ CreateDiaryWithImage(r, u, None, keywords, None, TRUE))
            => /\ req'[r].pc = "done" /\ req'[r].raised = "ValidationError"
               /\ CheckInRows' = CheckInRows
       /\ (\E r \in Slots : req[r].raised = "ValidationError")
            => CheckInRows' = CheckInRows]_vars

\* C29 witness: a request without content and keywords has been refused
\* after the user had checked in before.
C29_Witness ==
    /\ req["r1"].pc = "done" /\ req["r1"].raised = "ValidationError"
    /\ diaries # {} /\ attendance # {}

----------------------------------------------------------------------------
(***************************************************************************)
(* Properties of the analysis request of createDiary (SpecMedal).          *)
(***************************************************************************)

\* C22: the analysis request of createDiary is dispatched only after the
\* diary+attendance transaction has committed, and a failure to deliver it
\* is swallowed: when the request is dispatched the diary and the day's
\* attendance are committed, the dispatch leaves them and the reported
\* success as they are, a failed delivery hands nothing to the AI server,
\* and a request reaches the AI server only by the one dispatch of a
\* committed createDiary (no retry).
C22_DispatchAfterCommit ==
    [][/\ \A r \in Slots, delivered \in BOOLEAN :
            DispatchAnalysis(r, delivered)
            => /\ \E x \in diaries : x.diary_id = req[r].diary_id
               /\ AttRows(req[r].user, req[r].today) # {}
               /\ CheckInRows' = CheckInRows
               /\ req'[r].outcome = "ok" /\ req'[r].raised = "none"
               /\ req'[r].pc = "done"
               /\ ~delivered => aiQueue' = aiQueue
       /\ \A m \in aiQueue' \ aiQueue :
            \E r \in Slots : /\ req[r].pc = "committed"
                             /\ req[r].diary_id = m.diary_id
                             /\ req'[r].pc = "done"]_vars

\* C22 witness: createDiary has reported success although its analysis
\* request never reached the AI server.
C22_Witness ==
    /\ req["r1"].pc = "done" /\ req["r1"].outcome = "ok"
    /\ DiaryRows(req["r1"].diary_id) # {}
    /\ AttRows(req["r1"].user, req["r1"].today) # {}
    /\ \A m \in aiQueue : m.diary_id # req["r1"].diary_id
    /\ AnalysesOf(req["r1"].diary_id) = {}
    /\ \A c \in CbSlots : cbs[c].pc = "idle"

----------------------------------------------------------------------------
(***************************************************************************)
(* Properties of the edit of a diary (SpecEdit).                           *)
(***************************************************************************)

\* The stored row of the diary the update works on, in a table `rows`.
StoredRow(rows) == CHOOSE x \in rows : x.diary_id = upd.diary_id

\* C30: updateDiary returns contentChanged = true exactly when a supplied
\* content differs from the stored content or a supplied keywords map
\* differs from the stored one; fields the caller did not supply are not
\* compared and keep their stored value.
C30_ContentChangedExactly ==
    [][(upd.pc = "loaded" /\ upd'.pc = "committed")
        => LET before == StoredRow(diaries)
               after == StoredRow(diaries')
           IN  /\ upd'.is_changed
                    <=> \/ upd.in_content # None /\ upd.in_content # before.content
                        \/ upd.in_keywords # None /\ upd.in_keywords # before.keywords
               /\ upd.in_content = None => after.content = before.content
               /\ upd.in_keywords = None => after.keywords = before.keywords]_vars

\* C30 witness: an update that supplied only keywords, different ones, has
\* committed: it reports a change and the text is the one stored before.
C30_Witness ==
    /\ upd.pc = "committed" /\ upd.is_changed
    /\ upd.in_content = None /\ upd.in_keywords = Some({"l"})
    /\ upd.content = Some("a") /\ upd.keywords = Some({"k"})
    /\ StoredRow(diaries).content = Some("a")
    /\ StoredRow(diaries).keywords = Some({"l"})

----------------------------------------------------------------------------
(***************************************************************************)
(* Properties of the feedback sweep (SpecFeedback).                        *)
(***************************************************************************)

\* The attempts to transmit a batch that a step makes.
NewAttempts == ai_feedback' \ ai_feedback

\* C23: a DiaryFeedback is marked is_sent_to_ai = true only after the batch
\* containing it was transmitted to the AI service successfully; when the
\* transmission fails, every feedback of that batch stays unsent.
C23_MarkedOnlyAfterTransmission ==
    [][/\ \A f \in diary_feedbacks' :
            (f.is_sent_to_ai /\ f \notin diary_feedbacks)
            => \E b \in NewAttempts : b.delivered /\ f.diary_id \in b.feedbacks
       /\ \A b \in NewAttempts :
            ~b.delivered => diary_feedbacks' = diary_feedbacks]_vars

\* C23 witness: a batch of two feedbacks could not be transmitted and both
\* are unsent, while another batch went through and its feedback is marked.
C23_Witness ==
    /\ \E b \in ai_feedback :
          /\ ~b.delivered /\ Cardinality(b.feedbacks) = 2
          /\ \A f \in diary_feedbacks : f.diary_id \in b.feedbacks => ~f.is_sent_to_ai
    /\ \E b \in ai_feedback :
          /\ b.delivered
          /\ \E f \in diary_feedbacks : f.diary_id \in b.feedbacks /\ f.is_sent_to_ai

\* The diaries of attempt a whose feedback is still unsent.
StillUnsent(a) ==
    {f.diary_id : f \in {g \in UnsentFeedbacks : g.diary_id \in a.feedbacks}}

\* C24: a feedback batch whose transmission failed is transmitted again by
\* the next run of the daily feedback sweep, and is never retried within the
\* failing run: a run makes at most one attempt, and a run that finds a
\* failed attempt with feedback still unsent transmits that feedback.
C24_RetriedByNextRun ==
    [][("feedback" \notin ran /\ "feedback" \in ran')
        => /\ Cardinality(NewAttempts) <= 1
           /\ \A a \in ai_feedback :
                (~a.delivered /\ StillUnsent(a) # {})
                => \E b \in NewAttempts : StillUnsent(a) \subseteq b.feedbacks]_vars

----------------------------------------------------------------------------
(***************************************************************************)
(* Properties of the inactivity sweep (SpecInactivity).                    *)
(***************************************************************************)

\* The sends a step makes to user u.
NewSendsTo(u) == {c \in sends' \ sends : c.user_id = u}

\* A run of the inactivity sweep starts and ends in this step.
InactivityRun ==
    \E job \in {"scheduled_job", "test_send_inactivity_push"} :
        job \notin ran /\ job \in ran'

\* The days since the last attendance of user u, who has one.
DaysInactive(u) == now - users[u].last_att_date[1]

\* C25: in one run of the inactivity sweep, each user with notifications
\* enabled, a registered push token and a known last-attendance date is sent
\* exactly one notification, of the tier, if the days since the last
\* attendance are exactly 3, 7 or 30, and none for any other value; users
\* with notifications disabled, without a token or without a last-attendance
\* date are sent none.
C25_OneTieredNotificationPerRun ==
    [][InactivityRun
        => \A u \in Users :
             IF /\ users[u].is_push_enabled
                /\ users[u].fcm_token # None
                /\ users[u].last_att_date # None
                /\ DaysInactive(u) \in {3, 7, 30}
             THEN /\ Cardinality(NewSendsTo(u)) = 1
                  /\ \A c \in NewSendsTo(u) :
                        /\ c.token = users[u].fcm_token
                        /\ c.type = CASE DaysInactive(u) = 3 -> "3_DAYS_INACTIVE"
                                       [] DaysInactive(u) = 7 -> "7_DAYS_INACTIVE"
                                       [] DaysInactive(u) = 30 -> "30_DAYS_INACTIVE"
             ELSE NewSendsTo(u) = {}]_vars

\* C25 witness: the scheduled run of today sent nothing to a user who is 4
\* days inactive and was sent the first tier yesterday, and nothing to the
\* other user, who has a token but never wrote a diary.
C25_Witness ==
    /\ "scheduled_job" \in ran
    /\ users[1].is_push_enabled /\ users[1].fcm_token # None
    /\ users[1].last_att_date # None /\ DaysInactive(1) = 4
    /\ \E c \in sends : c.user_id = 1 /\ c.day = now - 1 /\ c.type = "3_DAYS_INACTIVE"
    /\ \A c \in sends : c.day # now
    /\ users[2].is_push_enabled /\ users[2].fcm_token # None
    /\ users[2].last_att_date = None

\* The sends of a tier's message to user u since the last attendance.
TierSends(u, type) ==
    {c \in sends : /\ c.user_id = u /\ c.type = type
                   /\ users[u].last_att_date # None
                   /\ c.day > users[u].last_att_date[1]}

\* C26: over one inactivity episode each tier (3, 7, 30 days) fires on
\* exactly one day: a user is sent the message of a tier at most once per
\* episode, and nothing after day 30.
C26_EachTierOncePerEpisode ==
    \A u \in Users :
        /\ \A type \in {"3_DAYS_INACTIVE", "7_DAYS_INACTIVE", "30_DAYS_INACTIVE"} :
              Cardinality(TierSends(u, type)) <= 1
        /\ \A c \in sends :
              (c.user_id = u /\ users[u].last_att_date # None)
              => c.day - users[u].last_att_date[1] <= 30

----------------------------------------------------------------------------
(***************************************************************************)
(* Properties of the custom-alarm sweep (SpecAlarm).                       *)
(***************************************************************************)

\* The reminder of user u is due at minute m of day d.
ReminderDue(u, d, m) ==
    /\ users[u].is_push_enabled
    /\ users[u].is_daily_alarm_on
    /\ users[u].fcm_token # None
    /\ users[u].daily_alarm_time = Some([minute |-> m, second |-> 0])
    /\ (d - 1) % 7 \in users[u].daily_alarm_days

\* C27: at each minute tick the custom-alarm sweep sends a reminder to
\* exactly the users with push enabled, the daily alarm on, a push token,
\* daily_alarm_time equal to the current UTC+9 minute and the current
\* weekday in daily_alarm_days; a tick that is missed is never caught up:
\* every reminder was sent in the minute in which it was due, so a day whose
\* tick was missed has none.
C27_ReminderOnlyAtItsMinute ==
    [][/\ ("scheduled_custom_alarm_job" \notin ran
           /\ "scheduled_custom_alarm_job" \in ran')
          => \A u \in Users :
               Cardinality(NewSendsTo(u)) = IF ReminderDue(u, now, kst_minute)
                                            THEN 1 ELSE 0
       /\ \A c \in sends' : ReminderDue(c.user_id, c.day, c.minute)]_vars

\* C27 witness: the tick of a user's alarm minute was missed today, a
\* weekday of the alarm; the minute is over and today's reminder was not
\* sent, while yesterday's was.
C27_Witness ==
    \E u \in Users :
        /\ ReminderDue(u, now, kst_minute - 1)
        /\ "scheduled_custom_alarm_job" \in ran
        /\ \A c \in sends : c.user_id = u => c.day # now
        /\ \E c \in sends : c.user_id = u /\ c.day = now - 1

----------------------------------------------------------------------------
(***************************************************************************)
(* Properties of image replacement (SpecImage).                            *)
(***************************************************************************)

\* The image reference of the stored diary d (None when the diary has no
\* image or is not stored).
StoredImage(rows, d) ==
    IF \E x \in rows : x.diary_id = d
    THEN (CHOOSE x \in rows : x.diary_id = d).image_url
    ELSE None

\* C31: on image replacement the old image is deleted from storage only
\* after the new image has been uploaded and the diary row carrying the new
\* reference has been committed; when the upload or the commit fails, the
\* old image is still in storage and the diary still references it.
C31_OldImageDeletedAfterCommit ==
    [][/\ \A k \in s3 \ s3' :
            /\ upd.pc = "committed"
            /\ upd.old_image_url = Some(k)
            /\ upd.image
            /\ upd.new_image_url # Some(k)
            /\ upd.new_image_url[1] \in s3
            /\ StoredImage(diaries, upd.diary_id) = upd.new_image_url
       /\ (upd.pc = "loaded" /\ upd'.pc = "done" /\ upd'.outcome = "error")
            => /\ StoredImage(diaries', upd.diary_id) = upd.old_image_url
               /\ upd.old_image_url # None => upd.old_image_url[1] \in s3']_vars

\* C31 witness: the old image of a diary has been replaced and deleted: the
\* diary references the new image, which is stored, and the old one is gone.
C31_Witness ==
    /\ upd.pc = "old_deleted"
    /\ upd.old_image_url # None
    /\ upd.old_image_url[1] \notin s3
    /\ StoredImage(diaries, upd.diary_id) = upd.new_image_url
    /\ upd.new_image_url[1] \in s3

\* C31 witness of the failure case: the upload or the commit of an image
\* replacement has failed on a diary that has an image.
C31_FailureWitness ==
    /\ upd.pc = "done" /\ upd.outcome = "error"
    /\ upd.old_image_url # None
    /\ upd.image

----------------------------------------------------------------------------
(***************************************************************************)
(* Properties of the analysis request's persona (SpecPersona).             *)
(***************************************************************************)

\* C32: the analysis request scheduled by createDiary carries the explicit
\* per-diary override when one is given, else the user's stored persona (as
\* the request loaded it) when it is set, else the fallback id 1.
C32_PersonaOfRequest ==
    [][\A r \in Slots :
         (req[r].pc = "committed" /\ req'[r].pc = "done")
           => \A m \in aiQueue' \ aiQueue :
                /\ m.diary_id = req[r].diary_id
                /\ m.user_id = req[r].user
                /\ req[r].persona # None => m.persona = req[r].persona[1]
                /\ (req[r].persona = None /\ req[r].snap.persona # None)
                     => m.persona = req[r].snap.persona[1]
                /\ (req[r].persona = None /\ req[r].snap.persona = None)
                     => m.persona = 1]_vars

\* C32 witness: the AI server holds a request that carries the override 0
\* of a diary whose user has the stored persona 2.
C32_Witness ==
    \E m \in aiQueue :
        /\ m.persona = 0
        /\ users[m.user_id].persona = Some(2)
        /\ req["r1"].pc = "done" /\ req["r1"].persona = Some(0)
        /\ req["r1"].snap.persona = Some(2)

----------------------------------------------------------------------------
(***************************************************************************)
(* Properties of the notification settings and the sweep's audit rows      *)
(* (SpecPush).                                                             *)
(***************************************************************************)

\* C33: no push notification is sent to a user whose is_push_enabled is
\* false, and a profile update that sets is_push_enabled to false leaves the
\* user without a push token.
C33_NoPushWhenDisabled ==
    [][\A u \in Users :
         /\ ~users[u].is_push_enabled => NewSendsTo(u) = {}
         /\ (users[u].is_push_enabled /\ ~users'[u].is_push_enabled)
               => users'[u].fcm_token = None]_vars

\* C36: every NotificationLog row written by the inactivity sweep belongs to
\* a tiered push that the gateway reported as sent.
C36_LogOnlyForSentPush ==
    \A l \in notification_logs :
        \E c \in sends : /\ c.user_id = l.user_id
                         /\ c.type = l.alert_type
                         /\ c.day = l.sent_at
                         /\ c.result = "True"

\* The number of days of inactivity a tier's message stands for.
TierDays(type) ==
    CASE type = "3_DAYS_INACTIVE" -> 3
      [] type = "7_DAYS_INACTIVE" -> 7
      [] type = "30_DAYS_INACTIVE" -> 30

\* C37: the sweep counts the days since the last attendance on the UTC+9
\* calendar that stamps last_att_date: a tier's message is sent exactly 3, 7
\* or 30 civil days after the last check-in.
C37_TierOnCivilDay ==
    [][InactivityRun
         => \A c \in sends' \ sends : DaysInactive(c.user_id) = TierDays(c.type)]_vars

----------------------------------------------------------------------------
(***************************************************************************)
(* Properties of the user's attendance stamp (SpecCheckIn).                *)
(***************************************************************************)

\* The attendance days of user u among the rows `rows`.
AttDays(rows, u) == {a.att_date : a \in {x \in rows : x.user_id = u}}

\* C34: in every committed state a user's last_att_date is null exactly when
\* the user has no Attendance row and otherwise is the latest att_date of the
\* user's rows; last_att_date never decreases, and current_streak is at least
\* 1 once an Attendance row exists.
C34_LastAttDateIsLatest ==
    [][\A u \in Users :
         /\ (users'[u].last_att_date = None) <=> (AttDays(attendance', u) = {})
         /\ users'[u].last_att_date # None
               => /\ users'[u].last_att_date[1] \in AttDays(attendance', u)
                  /\ \A d \in AttDays(attendance', u) : d <= users'[u].last_att_date[1]
         /\ users[u].last_att_date # None
               => /\ users'[u].last_att_date # None
                  /\ users'[u].last_att_date[1] >= users[u].last_att_date[1]
         /\ AttDays(attendance', u) # {} => users'[u].current_streak >= 1]_vars

----------------------------------------------------------------------------
(***************************************************************************)
(* Properties of stored image references (SpecPhoto).                      *)
(***************************************************************************)

\* C35: a persisted diary's image_url never references a storage object
\* that has been deleted: when delete-photo or delete-diary has ended, the
\* commit failed or not, every stored diary with an image reference has its
\* object in storage.
C35_NoDanglingImageReference ==
    del.pc = "done"
        => \A x \in diaries : x.image_url # None => x.image_url[1] \in s3

----------------------------------------------------------------------------
(***************************************************************************)
(* Properties of the feedback batch (SpecFeedbackEdit).                    *)
(***************************************************************************)

\* The days since the owner of diary d signed up.
DaysSinceJoin(d) == now - users[OwnerOf(d)].created_at

\* C38: a DiaryFeedback whose diary has no EmotionAnalysis when the sweep
\* runs is not included in the batch and is not marked as sent, and a
\* feedback is included in a batch only when the owner's days since signup
\* are a positive multiple of 14.
C38_BatchOnlyAnalysedOnCadence ==
    [][/\ \A b \in NewAttempts : \A d \in b.feedbacks :
            /\ AnalysesOf(d) # {}
            /\ DaysSinceJoin(d) > 0
            /\ DaysSinceJoin(d) % 14 = 0
       /\ \A f \in diary_feedbacks' :
            (f.is_sent_to_ai /\ f \notin diary_feedbacks)
              => /\ AnalysesOf(f.diary_id) # {}
                 /\ \E b \in NewAttempts : f.diary_id \in b.feedbacks]_vars

\* C38 witness: on the 14th day after user 1 signed up the sweep has sent
\* the feedback of diary 1, while the feedback of diary 3, whose analysis an
\* edit removed, was left out and is unsent.
C38_Witness ==
    /\ "feedback" \in ran
    /\ AnalysesOf(3) = {}
    /\ \E b \in ai_feedback :
          /\ b.at = now /\ b.delivered
          /\ 1 \in b.feedbacks /\ 3 \notin b.feedbacks
    /\ \E f \in diary_feedbacks : f.diary_id = 3 /\ ~f.is_sent_to_ai
    /\ \E f \in diary_feedbacks : f.diary_id = 1 /\ f.is_sent_to_ai

============================================================================
